---- MODULE Spec2Model ----
(***************************************************************************)
(* Model of @versui/sw-plugin: the service-worker handler that resolves    *)
(* request paths against a registry of Walrus quilt patch ids and fetches  *)
(* them from an ordered list of aggregators with failover.                 *)
(*                                                                         *)
(* JavaScript strings are modelled as sequences of one-character strings,  *)
(* so that slicing, searching and concatenation are computed as the code   *)
(* computes them.                                                          *)
(***************************************************************************)
EXTENDS Integers, Sequences, FiniteSets, TLC

(***************************************************************************)
(* String primitives of the JavaScript runtime.                            *)
(***************************************************************************)

\* String.prototype.startsWith
startsWith(s, p) ==
    /\ Len(s) >= Len(p)
    /\ SubSeq(s, 1, Len(p)) = p

\* String.prototype.endsWith
endsWith(s, p) ==
    /\ Len(s) >= Len(p)
    /\ SubSeq(s, Len(s) - Len(p) + 1, Len(s)) = p

\* String.prototype.indexOf for a single character, as a 1-based position
\* (0 when the character does not occur; JavaScript's -1)
indexOf(s, c) ==
    IF \E k \in 1..Len(s) : s[k] = c
    THEN CHOOSE k \in 1..Len(s) : s[k] = c /\ \A j \in 1..(k - 1) : s[j] # c
    ELSE 0

\* String.prototype.lastIndexOf for a single character, 1-based (0 when absent)
lastIndexOf(s, c) ==
    IF \E k \in 1..Len(s) : s[k] = c
    THEN CHOOSE k \in 1..Len(s) : s[k] = c /\ \A j \in (k + 1)..Len(s) : s[j] # c
    ELSE 0

\* s.slice(0, -1)
dropLast(s) == SubSeq(s, 1, Len(s) - 1)

\* The position of the first character of s, at or after position from, that
\* belongs to stops; Len(s) + 1 when there is none
firstOf(s, from, stops) ==
    IF \E k \in from..Len(s) : s[k] \in stops
    THEN CHOOSE k \in from..Len(s) :
            s[k] \in stops /\ \A j \in from..(k - 1) : s[j] \notin stops
    ELSE Len(s) + 1

UpperCase == <<"A", "B", "C", "D", "E", "F", "G", "H", "I", "J", "K", "L", "M",
               "N", "O", "P", "Q", "R", "S", "T", "U", "V", "W", "X", "Y", "Z">>

LowerCase == <<"a", "b", "c", "d", "e", "f", "g", "h", "i", "j", "k", "l", "m",
               "n", "o", "p", "q", "r", "s", "t", "u", "v", "w", "x", "y", "z">>

\* String.prototype.toLowerCase
toLowerCase(s) ==
    [k \in 1..Len(s) |->
        IF \E n \in 1..Len(UpperCase) : UpperCase[n] = s[k]
        THEN LowerCase[CHOOSE n \in 1..Len(UpperCase) : UpperCase[n] = s[k]]
        ELSE s[k]]

Letters == {UpperCase[n] : n \in 1..Len(UpperCase)} \cup {LowerCase[n] : n \in 1..Len(LowerCase)}

(***************************************************************************)
(* new URL(s), for the part the handler uses: whether the constructor      *)
(* throws, and the pathname of the parsed URL.  A URL needs a scheme       *)
(* (letters, then ':'); a special scheme (http, https) needs a host, which *)
(* follows any slashes after the ':' and ends at the next '/', '?' or '#'; *)
(* the pathname runs from there to the query or fragment and is '/' when   *)
(* empty.  Any other scheme has an authority only after '//', may have an  *)
(* empty host, and keeps its pathname as written.  Inputs with dot         *)
(* segments, backslashes, credentials or characters that the parser        *)
(* percent-encodes are outside the strings the model draws.                *)
(***************************************************************************)
InvalidURL == <<"TypeError: Invalid URL">>

SpecialSchemes == { <<"h", "t", "t", "p">>, <<"h", "t", "t", "p", "s">> }

URL_scheme_end(s) == indexOf(s, ":")

URL_valid_scheme(s) ==
    /\ URL_scheme_end(s) > 1
    /\ \A k \in 1..(URL_scheme_end(s) - 1) : s[k] \in Letters

\* position of the first character of the host of a special-scheme URL
URL_host_start(s) ==
    LET colon == URL_scheme_end(s)
    IN  IF \E k \in (colon + 1)..Len(s) : s[k] # "/"
        THEN CHOOSE k \in (colon + 1)..Len(s) :
                s[k] # "/" /\ \A j \in (colon + 1)..(k - 1) : s[j] = "/"
        ELSE Len(s) + 1

\* host[:port] of an authority: a port, when present, is made of digits (none
\* of which the model's strings contain, so it is empty)
URL_port_ok(authority) ==
    LET colon == indexOf(authority, ":")
    IN  colon = 0 \/ colon = Len(authority)

URL_host(authority) ==
    LET colon == indexOf(authority, ":")
    IN  IF colon = 0 THEN authority ELSE SubSeq(authority, 1, colon - 1)

URL_pathname(s) ==
    IF ~URL_valid_scheme(s) THEN InvalidURL
    ELSE LET scheme == toLowerCase(SubSeq(s, 1, URL_scheme_end(s) - 1))
         IN  IF scheme \in SpecialSchemes
             THEN LET hs == URL_host_start(s)
                      he == firstOf(s, hs, {"/", "?", "#"})
                      pe == firstOf(s, he, {"?", "#"})
                      authority == SubSeq(s, hs, he - 1)
                  IN  IF URL_host(authority) = << >> \/ ~URL_port_ok(authority)
                      THEN InvalidURL
                      ELSE IF pe = he THEN <<"/">>
                      ELSE SubSeq(s, he, pe - 1)
             ELSE LET ps == URL_scheme_end(s) + 1
                  IN  IF startsWith(SubSeq(s, ps, Len(s)), <<"/", "/">>)
                      THEN LET he == firstOf(s, ps + 2, {"/", "?", "#"})
                               pe == firstOf(s, he, {"?", "#"})
                               authority == SubSeq(s, ps + 2, he - 1)
                           IN  IF ~URL_port_ok(authority)
                                  \/ (URL_host(authority) = << >> /\ authority # << >>)
                               THEN InvalidURL
                               ELSE SubSeq(s, he, pe - 1)
                      ELSE SubSeq(s, ps, firstOf(s, ps, {"?", "#"}) - 1)

\* new URL(s) does not throw
URL_ok(s) == URL_pathname(s) # InvalidURL

(***************************************************************************)
(* Internal helpers (pure)                                                 *)
(***************************************************************************)

\* normalize_path: InvalidURL stands for the TypeError new URL() throws
normalize_path(url_or_path) ==
    IF startsWith(url_or_path, <<"h", "t", "t", "p">>)
    THEN LET pathname == URL_pathname(url_or_path)
         IN  IF pathname = InvalidURL THEN InvalidURL
             ELSE IF Len(pathname) > 1 /\ endsWith(pathname, <<"/">>)
                  THEN dropLast(pathname)
                  ELSE pathname
    ELSE LET query_index == indexOf(url_or_path, "?")
             n1 == IF query_index # 0
                   THEN SubSeq(url_or_path, 1, query_index - 1)
                   ELSE url_or_path
             n2 == IF ~startsWith(n1, <<"/">>) THEN <<"/">> \o n1 ELSE n1
         IN  IF Len(n2) > 1 /\ endsWith(n2, <<"/">>) THEN dropLast(n2) ELSE n2

\* The extensions of MIME_TYPES the model's paths can have, with their types
MIME_TYPES ==
    { << <<".", "h", "t", "m", "l">>, "text/html" >>,
      << <<".", "j", "s">>, "text/javascript" >>,
      << <<".", "m", "j", "s">>, "text/javascript" >>,
      << <<".", "c", "s", "s">>, "text/css" >>,
      << <<".", "j", "s", "o", "n">>, "application/json" >>,
      << <<".", "s", "v", "g">>, "image/svg+xml" >>,
      << <<".", "p", "n", "g">>, "image/png" >>,
      << <<".", "j", "p", "g">>, "image/jpeg" >>,
      << <<".", "j", "p", "e", "g">>, "image/jpeg" >>,
      << <<".", "g", "i", "f">>, "image/gif" >>,
      << <<".", "w", "e", "b", "p">>, "image/webp" >>,
      << <<".", "i", "c", "o">>, "image/x-icon" >>,
      << <<".", "w", "o", "f", "f">>, "font/woff" >>,
      << <<".", "w", "o", "f", "f", "2">>, "font/woff2" >>,
      << <<".", "t", "t", "f">>, "font/ttf" >>,
      << <<".", "w", "a", "s", "m">>, "application/wasm" >>,
      << <<".", "t", "x", "t">>, "text/plain" >>,
      << <<".", "x", "m", "l">>, "application/xml" >> }

get_mime_type(path) ==
    LET dot_index == lastIndexOf(path, ".")
    IN  IF dot_index = 0 THEN "application/octet-stream"
        ELSE LET extension == toLowerCase(SubSeq(path, dot_index, Len(path)))
             IN  IF \E e \in MIME_TYPES : e[1] = extension
                 THEN (CHOOSE e \in MIME_TYPES : e[1] = extension)[2]
                 ELSE "application/octet-stream"

\* trim_trailing_slash with the bug of removing two trailing slashes
trim_trailing_slash_twice(url) ==
    IF endsWith(url, <<"/", "/">>) THEN dropLast(dropLast(url))
    ELSE IF endsWith(url, <<"/">>) THEN dropLast(url) ELSE url

trim_trailing_slash(url) ==
    IF endsWith(url, <<"/">>) THEN dropLast(url) ELSE url


(***************************************************************************)
(* Values of the JavaScript runtime that are not strings.                  *)
(***************************************************************************)

\* the value undefined (what Map.get returns for a missing key)
Undefined == <<"undefined">>

\* `${v}`: template interpolation of a string or of undefined
Interpolate(v) ==
    IF v = Undefined THEN <<"u", "n", "d", "e", "f", "i", "n", "e", "d">> ELSE v

\* !v for a string or undefined
Falsy(v) == v = Undefined \/ v = <<>>

Digits == <<"0", "1", "2", "3", "4", "5", "6", "7", "8", "9">>

RECURSIVE NumberToString(_)
\* `${n}` for a non-negative integer
NumberToString(n) ==
    IF n < 10 THEN <<Digits[n + 1]>>
    ELSE NumberToString(n \div 10) \o <<Digits[(n % 10) + 1]>>

\* Response.ok
ResponseOk(status) == status \in 200..299

(***************************************************************************)
(* Bounds and inputs of the model.                                         *)
(***************************************************************************)

\* handle / fetch_from_walrus calls made on the handler
MaxRequests == 2

\* load calls made on the handler (failing ones included)
MaxLoads == 2

Requests == 1..MaxRequests

\* the windows the service worker controls, in the order
\* self.clients.matchAll() lists them
Clients == <<"c1", "c2">>

\* statuses an aggregator answers with
Statuses == {200, 500}

Str_a == <<"h", "t", "t", "p", ":", "/", "/", "a">>
Str_a_slash == <<"h", "t", "t", "p", ":", "/", "/", "a", "/">>
Str_b == <<"h", "t", "t", "p", ":", "/", "/", "b">>
Str_p == <<"/", "p", ".", "j", "s">>
Str_q == <<"q", "/">>

JsObject(entries) == [type |-> "object", entries |-> entries]
JsArray(items) == [type |-> "array", items |-> items]
JsNull == [type |-> "null"]
JsUndefined == [type |-> "undefined"]

\* arguments of load: bootstrap messages, well-formed and malformed
LoadInputs ==
    { [resources |-> JsObject(<< <<Str_p, <<"1">> >>, <<Str_q, <<"2">> >> >>),
       aggregators |-> JsArray(<<Str_a_slash, Str_b>>)],
      [resources |-> JsObject(<< <<Str_p, <<"3">> >> >>),
       aggregators |-> JsArray(<<Str_b>>)],
      [resources |-> JsObject(<< <<Str_p, <<"1">> >> >>),
       aggregators |-> JsArray(<< >>)],
      [resources |-> JsNull,
       aggregators |-> JsArray(<<Str_a>>)],
      [resources |-> JsObject(<< <<Str_p, <<"1">> >> >>),
       aggregators |-> JsArray(<<Str_a, <<"x">> >>)] }

\* event.request.url of the fetch events: a registered path with a query, a
\* registered path with a trailing slash, and a path no load registers
RequestUrls ==
    { <<"h", "t", "t", "p", ":", "/", "/", "s", "/", "p", ".", "j", "s", "?", "v">>,
      <<"h", "t", "t", "p", ":", "/", "/", "s", "/", "q", "/">>,
      <<"h", "t", "t", "p", ":", "/", "/", "s", "/", "z">> }

\* arguments of fetch_from_walrus
DirectPaths == { <<"p", ".", "j", "s">>, <<"/", "z">> }


(***************************************************************************)
(* State of one handler instance (create_versui_handler) and of the calls  *)
(* made on it.                                                             *)
(***************************************************************************)
VARIABLES
    resources,          \* Map of normalized path -> quilt patch id
    aggregators,        \* ordered list of aggregator URLs, slashes trimmed
    success_notified,   \* VERSUI_SUCCESS already sent since the last load
    task,               \* the handle / fetch_from_walrus calls, by call number
    log,                \* per call: its fetches and posted messages, in order
    nreq,               \* calls of handle / fetch_from_walrus made so far
    nloads,             \* calls of load made so far
    generation,         \* successful loads so far
    load_result,        \* the latest load call: its argument and what it threw
    overlap,            \* some call was made while another was in flight
    loaded,             \* argument of the latest load call that returned
    probe,              \* the latest call of handles or of a pure helper
    final_aggregators,  \* caching variant: custom aggregators, then the defaults
    site_installed,     \* caching variant: VERSUI_SUCCESS already sent
    cache_name,         \* caching variant: options.cache_name
    cache,              \* caching variant: the named cache, request URL -> response
    puts,               \* caching variant: cache.put calls that have not completed
    given               \* caching variant: the resource maps given so far

vars == <<resources, aggregators, success_notified, task, log, nreq, nloads,
          generation, load_result, overlap, loaded, probe, final_aggregators,
          site_installed, cache_name, cache, puts, given>>

\* the state of the caching variant (src/unnamed/part_000), which the handler
\* of src/src/index.js does not have
caching_vars == <<final_aggregators, site_installed, cache_name, cache, puts, given>>

\* placeholders of a call's fields before they are assigned
NoError == [name |-> "", message |-> << >>, attempt |-> 0]
NoResponse == [status |-> 0, body |-> << >>]

\* a call not made yet.  pc is the call's position: "idle" (not made), "threw"
\* (handle threw synchronously), "notify_loading" / "notify_success" /
\* "notify_error" (suspended in notify_clients for that message), "fetching"
\* (suspended on the fetch of aggs[i]), "resolved", "rejected"
NoTask ==
    [kind |-> "none", pc |-> "idle", url |-> << >>, path |-> << >>,
     quilt_patch_id |-> << >>, aggs |-> << >>, i |-> 0,
     last_error |-> NoError, response |-> NoResponse, result |-> NoResponse]

\* no load call made yet / no helper called yet (at: the number of load calls
\* made before the helper was called)
NoLoad == [argument |-> JsUndefined, threw |-> FALSE, message |-> << >>]
NoProbe == [op |-> "none", arg |-> << >>, ret |-> << >>, at |-> 0]

\* a call that has settled: its promise resolved or rejected, or it threw
Settled(t) == t.pc \in {"idle", "threw", "resolved", "rejected"}

InFlight(t) == ~Settled(t)

AllSettled == \A r \in Requests : Settled(task[r])

\* create_versui_handler: the closure's initial state
Init ==
    /\ resources = << >>
    /\ aggregators = << >>
    /\ success_notified = FALSE
    /\ task = [r \in Requests |-> NoTask]
    /\ log = [r \in Requests |-> << >>]
    /\ nreq = 0
    /\ nloads = 0
    /\ generation = 0
    /\ load_result = NoLoad
    /\ overlap = FALSE
    /\ loaded = JsUndefined
    /\ probe = NoProbe
    /\ final_aggregators = << >>
    /\ site_installed = FALSE
    /\ cache_name = JsNull
    /\ cache = << >>
    /\ puts = {}
    /\ given = << >>

(***************************************************************************)
(* load                                                                    *)
(***************************************************************************)

\* Map.get / Map.has on the registry
MapHas(map, key) == key \in DOMAIN map
MapGet(map, key) == IF key \in DOMAIN map THEN map[key] ELSE Undefined

\* StoreEntries with the bug of keeping the first entry of a key
StoreEntries_first_wins(entries, n) ==
    [key \in {normalize_path(entries[k][1]) : k \in 1..n} |->
        LET first == CHOOSE k \in 1..n :
                        /\ normalize_path(entries[k][1]) = key
                        /\ \A j \in 1..(k - 1) : normalize_path(entries[j][1]) # key
        IN  entries[first][2]]

\* the Map built by resources.set(normalize_path(path), id) over the first n
\* entries, in order: a later entry overwrites an earlier one with the same key
StoreEntries(entries, n) ==
    [key \in {normalize_path(entries[k][1]) : k \in 1..n} |->
        LET last == CHOOSE k \in 1..n :
                        /\ normalize_path(entries[k][1]) = key
                        /\ \A j \in (k + 1)..n : normalize_path(entries[j][1]) # key
        IN  entries[last][2]]

\* the number of entries stored before normalize_path throws (all of them
\* when it does not)
EntriesStored(entries) ==
    IF \E k \in 1..Len(entries) : normalize_path(entries[k][1]) = InvalidURL
    THEN (CHOOSE k \in 1..Len(entries) :
            /\ normalize_path(entries[k][1]) = InvalidURL
            /\ \A j \in 1..(k - 1) : normalize_path(entries[j][1]) # InvalidURL) - 1
    ELSE Len(entries)

\* the error load throws for its argument, "ok" when it returns
LoadOutcome(data) ==
    LET res == data.resources
        agg == data.aggregators
    IN  IF agg.type # "array" \/ Len(agg.items) = 0
        THEN "load() requires non-empty aggregators array"
        ELSE IF res.type # "object"
        THEN "load() requires resources object"
        ELSE IF \E k \in 1..Len(agg.items) : ~URL_ok(agg.items[k])
        THEN "Invalid aggregator URL"
        ELSE IF EntriesStored(res.entries) < Len(res.entries)
        THEN "TypeError: Invalid URL"
        ELSE "ok"

\* the entry the 'Invalid aggregator URL: ...' error names
FirstInvalidAggregator(items) ==
    items[CHOOSE k \in 1..Len(items) :
            ~URL_ok(items[k]) /\ \A j \in 1..(k - 1) : URL_ok(items[j])]

\* the message of the error load throws for its argument (empty when it
\* returns)
LoadError(data) ==
    LET outcome == LoadOutcome(data)
    IN  IF outcome = "ok" THEN << >>
        ELSE IF outcome = "Invalid aggregator URL"
        THEN <<"Invalid aggregator URL: ">>
                 \o FirstInvalidAggregator(data.aggregators.items)
        ELSE IF outcome = "TypeError: Invalid URL" THEN InvalidURL
        ELSE <<outcome>>

\* load with the bug of not resetting success_notified
load_no_reset(data) ==
    LET outcome == LoadOutcome(data)
    IN  /\ nloads < MaxLoads
        /\ nloads' = nloads + 1
        /\ load_result' = [argument |-> data, threw |-> outcome # "ok",
                            message |-> LoadError(data)]
        /\ loaded' = IF outcome = "ok" THEN data ELSE loaded
        /\ overlap' = (overlap \/ ~AllSettled)
        /\ IF outcome = "ok"
           THEN /\ resources' = StoreEntries(data.resources.entries,
                                             Len(data.resources.entries))
                /\ aggregators' = [k \in 1..Len(data.aggregators.items) |->
                                      trim_trailing_slash(data.aggregators.items[k])]
                /\ generation' = generation + 1
                /\ UNCHANGED success_notified
           ELSE IF outcome = "TypeError: Invalid URL"
           THEN /\ resources' = StoreEntries(data.resources.entries,
                                             EntriesStored(data.resources.entries))
                /\ UNCHANGED <<aggregators, success_notified, generation>>
           ELSE UNCHANGED <<resources, aggregators, success_notified, generation>>
        /\ UNCHANGED <<task, log, nreq, probe,
                       caching_vars>>

\* load with the bug of clearing the endpoint list when validation fails
load_clears_on_error(data) ==
    LET outcome == LoadOutcome(data)
    IN  /\ nloads < MaxLoads
        /\ nloads' = nloads + 1
        /\ load_result' = [argument |-> data, threw |-> outcome # "ok",
                            message |-> LoadError(data)]
        /\ loaded' = IF outcome = "ok" THEN data ELSE loaded
        /\ overlap' = (overlap \/ ~AllSettled)
        /\ IF outcome = "ok"
           THEN /\ resources' = StoreEntries(data.resources.entries,
                                             Len(data.resources.entries))
                /\ aggregators' = [k \in 1..Len(data.aggregators.items) |->
                                      trim_trailing_slash(data.aggregators.items[k])]
                /\ success_notified' = FALSE
                /\ generation' = generation + 1
           ELSE IF outcome = "TypeError: Invalid URL"
           THEN /\ resources' = StoreEntries(data.resources.entries,
                                             EntriesStored(data.resources.entries))
                /\ UNCHANGED <<aggregators, success_notified, generation>>
           ELSE /\ aggregators' = << >>
                /\ UNCHANGED <<resources, success_notified, generation>>
        /\ UNCHANGED <<task, log, nreq, probe,
                       caching_vars>>

\* load with the bug of merging the new entries into the registry instead of
\* replacing it
load_merges(data) ==
    LET outcome == LoadOutcome(data)
        stored == StoreEntries(data.resources.entries, Len(data.resources.entries))
    IN  /\ nloads < MaxLoads
        /\ nloads' = nloads + 1
        /\ load_result' = [argument |-> data, threw |-> outcome # "ok",
                            message |-> LoadError(data)]
        /\ loaded' = IF outcome = "ok" THEN data ELSE loaded
        /\ overlap' = (overlap \/ ~AllSettled)
        /\ IF outcome = "ok"
           THEN /\ resources' = [key \in DOMAIN resources \cup DOMAIN stored |->
                                    IF key \in DOMAIN stored THEN stored[key]
                                    ELSE resources[key]]
                /\ aggregators' = [k \in 1..Len(data.aggregators.items) |->
                                      trim_trailing_slash(data.aggregators.items[k])]
                /\ success_notified' = FALSE
                /\ generation' = generation + 1
           ELSE IF outcome = "TypeError: Invalid URL"
           THEN /\ resources' = StoreEntries(data.resources.entries,
                                             EntriesStored(data.resources.entries))
                /\ UNCHANGED <<aggregators, success_notified, generation>>
           ELSE UNCHANGED <<resources, aggregators, success_notified, generation>>
        /\ UNCHANGED <<task, log, nreq, probe,
                       caching_vars>>

load(data) ==
    LET outcome == LoadOutcome(data)
    IN  /\ nloads < MaxLoads
        /\ nloads' = nloads + 1
        /\ load_result' = [argument |-> data, threw |-> outcome # "ok",
                            message |-> LoadError(data)]
        /\ loaded' = IF outcome = "ok" THEN data ELSE loaded
        /\ overlap' = (overlap \/ ~AllSettled)
        /\ IF outcome = "ok"
           THEN /\ resources' = StoreEntries(data.resources.entries,
                                             Len(data.resources.entries))
                /\ aggregators' = [k \in 1..Len(data.aggregators.items) |->
                                      trim_trailing_slash(data.aggregators.items[k])]
                /\ success_notified' = FALSE
                /\ generation' = generation + 1
           ELSE IF outcome = "TypeError: Invalid URL"
           THEN /\ resources' = StoreEntries(data.resources.entries,
                                             EntriesStored(data.resources.entries))
                /\ UNCHANGED <<aggregators, success_notified, generation>>
           ELSE UNCHANGED <<resources, aggregators, success_notified, generation>>
        /\ UNCHANGED <<task, log, nreq, probe,
                       caching_vars>>


(***************************************************************************)
(* Errors, responses and messages                                          *)
(***************************************************************************)

\* attempt: which attempt of the traversal produced the error (0: none)
JsError(name, message, attempt) ==
    [name |-> name, message |-> message, attempt |-> attempt]

NotInitialized ==
    JsError("Error", <<"Handler not initialized - call load() first">>, 0)

ResourceNotFound(normalized) ==
    JsError("Error", <<"Resource not found: ">> \o normalized, 0)

\* new Error(`${aggregator}: ${response.status}`)
StatusError(aggregator, status, attempt) ==
    JsError("Error", aggregator \o <<": ">> \o NumberToString(status), attempt)

\* what fetch rejects with when the transport fails
TransportError(attempt) == JsError("TypeError", <<"fetch failed">>, attempt)

\* what fetch rejects with when its signal is aborted
AbortError(attempt) == JsError("AbortError", <<"This operation was aborted">>, attempt)

\* `${aggregator}/v1/blobs/${quilt_patch_id}`
BlobUrl(aggregator, quilt_patch_id) ==
    aggregator \o <<"/v1/blobs/">> \o Interpolate(quilt_patch_id)

\* the aggregator's response to a fetch of url; its body is identified by the
\* url that served it
UpstreamResponse(url, status) ==
    [status |-> status, content_type |-> "application/x-walrus-blob", body |-> url]

\* SuccessResponse with the bug of passing the aggregator's status and
\* Content-Type through
SuccessResponse_passthrough(response, path) ==
    [status |-> response.status, statusText |-> "",
     content_type |-> response.content_type, body |-> response.body]

\* new Response(response.body, { status: 200, headers: { 'Content-Type': ... } })
SuccessResponse(response, path) ==
    [status |-> 200, statusText |-> "", content_type |-> get_mime_type(path),
     body |-> response.body]

\* new Response('Walrus fetch failed', { status: 502, ... })
BadGatewayResponse ==
    [status |-> 502, statusText |-> "Bad Gateway", content_type |-> "text/plain",
     body |-> <<"Walrus fetch failed">>]

\* LoadingMessage with the bug of leaving the path out
LoadingMessage_no_path(path) == [type |-> "VERSUI_LOADING", path |-> << >>]

LoadingMessage(path) == [type |-> "VERSUI_LOADING", path |-> path]
SuccessMessage == [type |-> "VERSUI_SUCCESS"]
\* ErrorMessage with the bug of sending the text of the 502 response instead
\* of the error's message
ErrorMessage_generic(error) == [type |-> "VERSUI_ERROR", error |-> <<"Walrus fetch failed">>]

ErrorMessage(error) == [type |-> "VERSUI_ERROR", error |-> error.message]

\* log entries
FetchEvent(url, attempt) == [ev |-> "fetch", url |-> url, attempt |-> attempt]
\* how an attempt ended: "response" (with the status), "throw" (the fetch
\* rejected) or "abort" (the timer fired and aborted it)
SettleEvent(ev, attempt, status) == [ev |-> ev, attempt |-> attempt, status |-> status]
PostEvent(msg, to) == [ev |-> "post", msg |-> msg, to |-> to, gen |-> generation]

(***************************************************************************)
(* try_aggregators: one attempt in flight at a time, in list order         *)
(***************************************************************************)

\* entering try_aggregators(quilt_patch_id, aggs): the first iteration arms
\* the timer and issues its fetch
StartTraversal(r, t, aggs) ==
    /\ task' = [task EXCEPT ![r] = [t EXCEPT !.pc = "fetching", !.aggs = aggs, !.i = 1]]
    /\ log' = [log EXCEPT ![r] =
                  Append(@, FetchEvent(BlobUrl(aggs[1], t.quilt_patch_id), 1))]

\* TraversalReturns with the bug of treating a fetch_from_walrus call as a
\* handle call: it tests the flag and goes on to broadcast VERSUI_SUCCESS
TraversalReturns_direct_notifies(r, response) ==
    LET t == task[r]
    IN  IF ~success_notified
        THEN task' = [task EXCEPT ![r] =
                         [t EXCEPT !.pc = "notify_success", !.response = response]]
        ELSE task' = [task EXCEPT ![r] =
                         [t EXCEPT !.pc = "resolved", !.response = response,
                                   !.result = SuccessResponse(response, t.path)]]

\* TraversalReturns with the bug of not looking at success_notified
TraversalReturns_always_notify(r, response) ==
    LET t == task[r]
    IN  IF t.kind = "handle"
        THEN task' = [task EXCEPT ![r] =
                         [t EXCEPT !.pc = "notify_success", !.response = response]]
        ELSE task' = [task EXCEPT ![r] =
                         [t EXCEPT !.pc = "resolved", !.response = response,
                                   !.result = response]]

\* try_aggregators returned response
TraversalReturns(r, response) ==
    LET t == task[r]
    IN  IF t.kind = "handle"
        THEN IF ~success_notified
             THEN task' = [task EXCEPT ![r] =
                              [t EXCEPT !.pc = "notify_success", !.response = response]]
             ELSE task' = [task EXCEPT ![r] =
                              [t EXCEPT !.pc = "resolved", !.response = response,
                                        !.result = SuccessResponse(response, t.path)]]
        ELSE task' = [task EXCEPT ![r] =
                         [t EXCEPT !.pc = "resolved", !.response = response,
                                   !.result = response]]

\* AttemptFailed with the bug of reading the handler's current endpoint list
\* in every iteration instead of the list the traversal was called with
AttemptFailed_reads_current(r, error, event) ==
    LET t == task[r]
    IN  IF t.i < Len(aggregators)
        THEN /\ task' = [task EXCEPT ![r] =
                            [t EXCEPT !.i = t.i + 1, !.last_error = error,
                                      !.aggs = aggregators]]
             /\ log' = [log EXCEPT ![r] =
                           @ \o <<event,
                                  FetchEvent(BlobUrl(aggregators[t.i + 1],
                                                     t.quilt_patch_id),
                                             t.i + 1)>>]
        ELSE /\ task' = [task EXCEPT ![r] =
                            IF t.kind = "handle"
                            THEN [t EXCEPT !.pc = "notify_error", !.last_error = error]
                            ELSE [t EXCEPT !.pc = "rejected", !.last_error = error,
                                           !.result = error]]
             /\ log' = [log EXCEPT ![r] = Append(@, event)]

\* AttemptFailed with the bug of keeping the first error of the traversal
\* (last_error ??= error) instead of the latest
AttemptFailed_first_error(r, error, event) ==
    LET t == task[r]
        kept == IF t.last_error = NoError THEN error ELSE t.last_error
    IN  IF t.i < Len(t.aggs)
        THEN /\ task' = [task EXCEPT ![r] =
                            [t EXCEPT !.i = t.i + 1, !.last_error = kept]]
             /\ log' = [log EXCEPT ![r] =
                           @ \o <<event,
                                  FetchEvent(BlobUrl(t.aggs[t.i + 1], t.quilt_patch_id),
                                             t.i + 1)>>]
        ELSE /\ task' = [task EXCEPT ![r] =
                            IF t.kind = "handle"
                            THEN [t EXCEPT !.pc = "notify_error", !.last_error = kept]
                            ELSE [t EXCEPT !.pc = "rejected", !.last_error = kept,
                                           !.result = kept]]
             /\ log' = [log EXCEPT ![r] = Append(@, event)]

\* AttemptFailed with the bug of trying the last aggregator once more before
\* giving up
AttemptFailed_retries_last(r, error, event) ==
    LET t == task[r]
        retried == \E k \in 1..Len(log[r]) :
                      log[r][k].ev \in {"response", "throw", "abort"}
                          /\ log[r][k].attempt = Len(t.aggs)
    IN  IF t.i < Len(t.aggs)
        THEN /\ task' = [task EXCEPT ![r] =
                            [t EXCEPT !.i = t.i + 1, !.last_error = error]]
             /\ log' = [log EXCEPT ![r] =
                           @ \o <<event,
                                  FetchEvent(BlobUrl(t.aggs[t.i + 1], t.quilt_patch_id),
                                             t.i + 1)>>]
        ELSE IF ~retried
        THEN /\ task' = [task EXCEPT ![r] = [t EXCEPT !.last_error = error]]
             /\ log' = [log EXCEPT ![r] =
                           @ \o <<event,
                                  FetchEvent(BlobUrl(t.aggs[t.i], t.quilt_patch_id),
                                             t.i)>>]
        ELSE /\ task' = [task EXCEPT ![r] =
                            IF t.kind = "handle"
                            THEN [t EXCEPT !.pc = "notify_error", !.last_error = error]
                            ELSE [t EXCEPT !.pc = "rejected", !.last_error = error,
                                           !.result = error]]
             /\ log' = [log EXCEPT ![r] = Append(@, event)]

\* the attempt in flight failed with error: the loop goes on to the next
\* aggregator, or try_aggregators throws last_error after the last one
AttemptFailed(r, error, event) ==
    LET t == task[r]
    IN  IF t.i < Len(t.aggs)
        THEN /\ task' = [task EXCEPT ![r] =
                            [t EXCEPT !.i = t.i + 1, !.last_error = error]]
             /\ log' = [log EXCEPT ![r] =
                           @ \o <<event,
                                  FetchEvent(BlobUrl(t.aggs[t.i + 1], t.quilt_patch_id),
                                             t.i + 1)>>]
        ELSE /\ task' = [task EXCEPT ![r] =
                            IF t.kind = "handle"
                            THEN [t EXCEPT !.pc = "notify_error", !.last_error = error]
                            ELSE [t EXCEPT !.pc = "rejected", !.last_error = error,
                                           !.result = error]]
             /\ log' = [log EXCEPT ![r] = Append(@, event)]

\* FetchResponds with the bug of returning the response without looking at
\* response.ok
FetchResponds_no_ok_check(r, status) ==
    LET t == task[r]
        url == BlobUrl(t.aggs[t.i], t.quilt_patch_id)
    IN  /\ t.pc = "fetching"
        /\ TraversalReturns(r, UpstreamResponse(url, status))
        /\ log' = [log EXCEPT ![r] =
                      Append(@, SettleEvent("response", t.i, status))]
        /\ UNCHANGED <<resources, aggregators, success_notified, nreq, nloads,
                       generation, load_result, loaded, probe, overlap,
                       caching_vars>>

\* the aggregator answers the attempt in flight with a status
FetchResponds(r, status) ==
    LET t == task[r]
        url == BlobUrl(t.aggs[t.i], t.quilt_patch_id)
    IN  /\ t.pc = "fetching"
        /\ IF ResponseOk(status)
           THEN /\ TraversalReturns(r, UpstreamResponse(url, status))
                /\ log' = [log EXCEPT ![r] =
                              Append(@, SettleEvent("response", t.i, status))]
           ELSE AttemptFailed(r, StatusError(t.aggs[t.i], status, t.i),
                              SettleEvent("response", t.i, status))
        /\ UNCHANGED <<resources, aggregators, success_notified, nreq, nloads,
                       generation, load_result, loaded, probe, overlap,
                       caching_vars>>

\* the fetch of the attempt in flight rejects (network failure)
FetchThrows(r) ==
    LET t == task[r]
    IN  /\ t.pc = "fetching"
        /\ AttemptFailed(r, TransportError(t.i), SettleEvent("throw", t.i, 0))
        /\ UNCHANGED <<resources, aggregators, success_notified, nreq, nloads,
                       generation, load_result, loaded, probe, overlap,
                       caching_vars>>

\* TimeoutFires with the bug of giving up the traversal: the endpoints after
\* the one that timed out are not tried
TimeoutFires_gives_up(r) ==
    LET t == task[r]
    IN  /\ t.pc = "fetching"
        /\ task' = [task EXCEPT ![r] =
                        IF t.kind = "handle"
                        THEN [t EXCEPT !.pc = "notify_error",
                                       !.last_error = AbortError(t.i)]
                        ELSE [t EXCEPT !.pc = "rejected",
                                       !.last_error = AbortError(t.i),
                                       !.result = AbortError(t.i)]]
        /\ log' = [log EXCEPT ![r] = Append(@, SettleEvent("abort", t.i, 0))]
        /\ UNCHANGED <<resources, aggregators, success_notified, nreq, nloads,
                       generation, load_result, loaded, probe, overlap,
                       caching_vars>>

\* the 5 s timer of the attempt in flight fires: controller.abort() makes the
\* fetch reject with an AbortError
TimeoutFires(r) ==
    LET t == task[r]
    IN  /\ t.pc = "fetching"
        /\ AttemptFailed(r, AbortError(t.i), SettleEvent("abort", t.i, 0))
        /\ UNCHANGED <<resources, aggregators, success_notified, nreq, nloads,
                       generation, load_result, loaded, probe, overlap,
                       caching_vars>>

(***************************************************************************)
(* handle, fetch_from_walrus                                               *)
(***************************************************************************)

\* handle with the bug of making the guard inside the async body: the call
\* returns a rejected promise instead of throwing
handle_async_guard(r, url) ==
    /\ nreq < MaxRequests
    /\ r = nreq + 1
    /\ nreq' = r
    /\ overlap' = (overlap \/ ~AllSettled)
    /\ IF Len(aggregators) = 0
       THEN task' = [task EXCEPT ![r] =
                        [NoTask EXCEPT !.kind = "handle", !.pc = "rejected",
                                       !.url = url, !.result = NotInitialized]]
       ELSE LET path == normalize_path(url)
            IN  task' = [task EXCEPT ![r] =
                            [NoTask EXCEPT !.kind = "handle", !.pc = "notify_loading",
                                           !.url = url, !.path = path,
                                           !.quilt_patch_id = MapGet(resources, path)]]
    /\ UNCHANGED <<resources, aggregators, success_notified, log, nloads,
                   generation, load_result, loaded, probe,
                       caching_vars>>

\* handle(event) up to its first suspension: the synchronous guard, then the
\* async body up to the await inside notify_clients
handle(r, url) ==
    /\ nreq < MaxRequests
    /\ r = nreq + 1
    /\ nreq' = r
    /\ overlap' = (overlap \/ ~AllSettled)
    /\ IF Len(aggregators) = 0
       THEN task' = [task EXCEPT ![r] =
                        [NoTask EXCEPT !.kind = "handle", !.pc = "threw",
                                       !.url = url, !.result = NotInitialized]]
       ELSE LET path == normalize_path(url)
            IN  task' = [task EXCEPT ![r] =
                            [NoTask EXCEPT !.kind = "handle", !.pc = "notify_loading",
                                           !.url = url, !.path = path,
                                           !.quilt_patch_id = MapGet(resources, path)]]
    /\ UNCHANGED <<resources, aggregators, success_notified, log, nloads,
                   generation, load_result, loaded, probe,
                       caching_vars>>

\* fetch_from_walrus(path) up to its first suspension
fetch_from_walrus(r, path) ==
    LET normalized == normalize_path(path)
        quilt_patch_id == MapGet(resources, normalized)
        started == [NoTask EXCEPT !.kind = "fetch_from_walrus", !.url = path]
    IN  /\ nreq < MaxRequests
        /\ r = nreq + 1
        /\ nreq' = r
        /\ overlap' = (overlap \/ ~AllSettled)
        /\ IF Len(aggregators) = 0
           THEN /\ task' = [task EXCEPT ![r] =
                               [started EXCEPT !.pc = "rejected",
                                               !.result = NotInitialized]]
                /\ UNCHANGED log
           ELSE IF normalized = InvalidURL
           THEN /\ task' = [task EXCEPT ![r] =
                               [started EXCEPT !.pc = "rejected",
                                   !.result = JsError("TypeError", InvalidURL, 0)]]
                /\ UNCHANGED log
           ELSE IF Falsy(quilt_patch_id)
           THEN /\ task' = [task EXCEPT ![r] =
                               [started EXCEPT !.pc = "rejected", !.path = normalized,
                                               !.result = ResourceNotFound(normalized)]]
                /\ UNCHANGED log
           ELSE StartTraversal(r, [started EXCEPT !.path = normalized,
                                                  !.quilt_patch_id = quilt_patch_id],
                               aggregators)
        /\ UNCHANGED <<resources, aggregators, success_notified, nloads,
                       generation, load_result, loaded, probe,
                       caching_vars>>

\* the message the suspended notify_clients call of a task is about to post
PendingMessage(t) ==
    IF t.pc = "notify_loading" THEN LoadingMessage(t.path)
    ELSE IF t.pc = "notify_success" THEN SuccessMessage
    ELSE ErrorMessage(t.last_error)

\* notify_clients with the bug of setting success_notified after the
\* VERSUI_ERROR broadcast as well
notify_clients_error_sets_flag(r) ==
    LET t == task[r]
        posted == Append(log[r], PostEvent(PendingMessage(t), Clients))
    IN  /\ t.pc \in {"notify_loading", "notify_success", "notify_error"}
        /\ IF t.pc = "notify_loading"
           THEN /\ task' = [task EXCEPT ![r] =
                               [t EXCEPT !.pc = "fetching", !.aggs = aggregators,
                                         !.i = 1]]
                /\ log' = [log EXCEPT ![r] =
                              Append(posted,
                                     FetchEvent(BlobUrl(aggregators[1], t.quilt_patch_id), 1))]
                /\ UNCHANGED success_notified
           ELSE IF t.pc = "notify_success"
           THEN /\ task' = [task EXCEPT ![r] =
                               [t EXCEPT !.pc = "resolved",
                                         !.result = SuccessResponse(t.response, t.path)]]
                /\ log' = [log EXCEPT ![r] = posted]
                /\ success_notified' = TRUE
           ELSE /\ task' = [task EXCEPT ![r] =
                               [t EXCEPT !.pc = "resolved",
                                         !.result = BadGatewayResponse]]
                /\ log' = [log EXCEPT ![r] = posted]
                /\ success_notified' = TRUE
        /\ UNCHANGED <<resources, aggregators, nreq, nloads, generation,
                       load_result, loaded, probe, overlap,
                       caching_vars>>


\* self.clients.matchAll() resolves: notify_clients posts the message to every
\* client and handle resumes after its await, up to its next suspension
notify_clients(r) ==
    LET t == task[r]
        posted == Append(log[r], PostEvent(PendingMessage(t), Clients))
    IN  /\ t.pc \in {"notify_loading", "notify_success", "notify_error"}
        /\ IF t.pc = "notify_loading"
           THEN /\ task' = [task EXCEPT ![r] =
                               [t EXCEPT !.pc = "fetching", !.aggs = aggregators,
                                         !.i = 1]]
                /\ log' = [log EXCEPT ![r] =
                              Append(posted,
                                     FetchEvent(BlobUrl(aggregators[1], t.quilt_patch_id), 1))]
                /\ UNCHANGED success_notified
           ELSE IF t.pc = "notify_success"
           THEN /\ task' = [task EXCEPT ![r] =
                               [t EXCEPT !.pc = "resolved",
                                         !.result = SuccessResponse(t.response, t.path)]]
                /\ log' = [log EXCEPT ![r] = posted]
                /\ success_notified' = TRUE
           ELSE /\ task' = [task EXCEPT ![r] =
                               [t EXCEPT !.pc = "resolved",
                                         !.result = BadGatewayResponse]]
                /\ log' = [log EXCEPT ![r] = posted]
                /\ UNCHANGED success_notified
        /\ UNCHANGED <<resources, aggregators, nreq, nloads, generation,
                       load_result, loaded, probe, overlap,
                       caching_vars>>

(***************************************************************************)
(* The handler with a broadcast channel that delivers.                     *)
(***************************************************************************)
Next ==
    \/ \E data \in LoadInputs : load(data)
    \/ \E r \in Requests, url \in RequestUrls : handle(r, url)
    \/ \E r \in Requests, path \in DirectPaths : fetch_from_walrus(r, path)
    \/ \E r \in Requests : notify_clients(r)
    \/ \E r \in Requests, status \in Statuses : FetchResponds(r, status)
    \/ \E r \in Requests : FetchThrows(r)
    \/ \E r \in Requests : TimeoutFires(r)

Spec == Init /\ [][Next]_vars


(***************************************************************************)
(* The handler with a broadcast channel that can fail: matchAll() rejects, *)
(* or postMessage throws at some client after the first `reached` clients *)
(* got the message.  The exception propagates out of notify_clients to the *)
(* await in handle.  The calls of this specification are made one after    *)
(* another: a fault needs no concurrency to show.                          *)
(***************************************************************************)
BroadcastError == JsError("Error", <<"broadcast failed">>, 0)

notify_clients_fails(r, reached) ==
    LET t == task[r]
    IN  /\ t.pc \in {"notify_loading", "notify_success", "notify_error"}
        /\ log' = [log EXCEPT ![r] =
                      IF reached = 0 THEN @
                      ELSE Append(@, PostEvent(PendingMessage(t),
                                               SubSeq(Clients, 1, reached)))]
        /\ task' = [task EXCEPT ![r] =
                       IF t.pc = "notify_success"
                       THEN [t EXCEPT !.pc = "notify_error",
                                      !.last_error = BroadcastError]
                       ELSE [t EXCEPT !.pc = "rejected", !.result = BroadcastError]]
        /\ UNCHANGED <<resources, aggregators, success_notified, nreq, nloads,
                       generation, load_result, loaded, probe, overlap,
                       caching_vars>>

NextFaulty ==
    \/ \E data \in LoadInputs : AllSettled /\ load(data)
    \/ \E r \in Requests, url \in RequestUrls : AllSettled /\ handle(r, url)
    \/ \E r \in Requests : notify_clients(r)
    \/ \E r \in Requests, status \in Statuses : FetchResponds(r, status)
    \/ \E r \in Requests : FetchThrows(r)
    \/ \E r \in Requests : TimeoutFires(r)
    \/ \E r \in Requests, reached \in 0..(Len(Clients) - 1) :
          notify_clients_fails(r, reached)

SpecFaulty == Init /\ [][NextFaulty]_vars

(***************************************************************************)
(* Reading the logs                                                        *)
(***************************************************************************)
Fetches(r) == SelectSeq(log[r], LAMBDA e : e.ev = "fetch")

Settles(r) == SelectSeq(log[r], LAMBDA e : e.ev \in {"response", "throw", "abort"})

Posts(r) == SelectSeq(log[r], LAMBDA e : e.ev = "post")

PostsOf(r, type) == SelectSeq(Posts(r), LAMBDA e : e.msg.type = type)

\* an attempt ended without an ok response
FailedSettle(e) == e.ev \in {"throw", "abort"} \/ ~ResponseOk(e.status)

\* every aggregator of the call's list was attempted and failed
Exhausted(r) ==
    /\ Len(task[r].aggs) > 0
    /\ Len(Settles(r)) = Len(task[r].aggs)
    /\ \A j \in 1..Len(Settles(r)) : FailedSettle(Settles(r)[j])

\* try_aggregators returned a response to the call
Returned(r) == task[r].response # NoResponse

RECURSIVE SumOver(_, _)
SumOver(f, S) ==
    IF S = {} THEN 0
    ELSE LET x == CHOOSE y \in S : TRUE IN f[x] + SumOver(f, S \ {x})

\* VERSUI_SUCCESS messages posted while generation g was current
SuccessCount(g) ==
    SumOver([r \in Requests |->
                Len(SelectSeq(PostsOf(r, "VERSUI_SUCCESS"), LAMBDA e : e.gen = g))],
            Requests)


(***************************************************************************)
(* Failover order and result of try_aggregators                            *)
(***************************************************************************)

\* the calls that entered try_aggregators
Traversing(r) == Len(task[r].aggs) > 0

\* C1: the attempts of a call are issued one at a time, in list order, each
\* to `${aggregator}/v1/blobs/${id}` of the next aggregator of the list and
\* only after the attempt before it failed; the response returned is the ok
\* response of the last attempt issued, so it is the first aggregator in list
\* order that answered ok, and no aggregator after it is attempted.
C1_FailoverInOrder ==
    \A r \in Requests :
        Traversing(r) =>
            LET t == task[r]
                f == Fetches(r)
                s == Settles(r)
            IN  /\ Len(f) \in 1..Len(t.aggs)
                /\ Len(s) \in {Len(f) - 1, Len(f)}
                /\ \A j \in 1..Len(f) :
                      /\ f[j].attempt = j
                      /\ f[j].url = BlobUrl(t.aggs[j], t.quilt_patch_id)
                /\ \A j \in 1..Len(s) : s[j].attempt = j
                /\ \A j \in 1..(Len(f) - 1) : FailedSettle(s[j])
                /\ (t.pc = "fetching") = (Len(s) = Len(f) - 1)
                /\ Returned(r) =>
                      /\ Len(s) = Len(f)
                      /\ ~FailedSettle(s[Len(s)])
                      /\ t.response = UpstreamResponse(f[Len(f)].url, s[Len(s)].status)

\* endpoints [A, B], A failed, B answered ok: one attempt to A, then one to B,
\* and B's response is what handle serves
C1_Witness ==
    \E r \in Requests :
        /\ task[r].kind = "handle"
        /\ task[r].pc = "resolved"
        /\ task[r].aggs = <<Str_a, Str_b>>
        /\ Len(Fetches(r)) = 2
        /\ FailedSettle(Settles(r)[1])
        /\ task[r].result.status = 200
        /\ task[r].result.body = BlobUrl(Str_b, task[r].quilt_patch_id)

\* C2: when every attempt failed, try_aggregators throws the failure of the
\* last aggregator of the list, whatever the earlier failures were; a non-ok
\* status is the error '<aggregator>: <status>'.
C2_LastFailureReported ==
    \A r \in Requests :
        Exhausted(r) =>
            LET t == task[r]
                n == Len(t.aggs)
                last == Settles(r)[n]
            IN  /\ t.last_error.attempt = n
                /\ t.last_error =
                      IF last.ev = "response"
                      THEN JsError("Error",
                                   t.aggs[n] \o <<": ">> \o NumberToString(last.status), n)
                      ELSE IF last.ev = "throw" THEN TransportError(n)
                      ELSE AbortError(n)
                /\ t.kind = "fetch_from_walrus" =>
                      t.pc = "rejected" /\ t.result = t.last_error
                /\ ~Returned(r)

\* two aggregators failed in different ways, and the second one's status
\* failure is the error reported
C2_Witness ==
    \E r \in Requests :
        /\ Exhausted(r)
        /\ Len(task[r].aggs) = 2
        /\ Settles(r)[1].ev = "throw"
        /\ Settles(r)[2].ev = "response"
        /\ task[r].last_error.message = Str_b \o <<": ">> \o <<"5", "0", "0">>


(***************************************************************************)
(* Notifications of handle                                                 *)
(***************************************************************************)

\* the types of the messages a call posted, in order
PostedTypes(r) == [k \in 1..Len(Posts(r)) |-> Posts(r)[k].msg.type]

\* handle resolved with the 200 response
Served(r) ==
    /\ task[r].kind = "handle"
    /\ task[r].pc = "resolved"
    /\ task[r].result.status = 200

\* VERSUI_SUCCESS messages posted so far
TotalSuccess ==
    SumOver([r \in Requests |-> Len(PostsOf(r, "VERSUI_SUCCESS"))], Requests)

C5_Original ==
    \A g \in 1..MaxLoads : SuccessCount(g) <= 1

C7_NotInitializedFailsFast ==
    generation = 0 =>
        \A r \in Requests :
            LET expected == [name |-> "Error",
                             message |-> <<"Handler not initialized - call load() first">>,
                             attempt |-> 0]
            IN  /\ log[r] = << >>
                /\ task[r].kind = "handle" =>
                      task[r].pc = "threw" /\ task[r].result = expected
                /\ task[r].kind = "fetch_from_walrus" =>
                      task[r].pc = "rejected" /\ task[r].result = expected

\* a load failed, then a handle call threw and a fetch_from_walrus call
\* rejected
C7_Witness ==
    /\ generation = 0
    /\ nloads > 0
    /\ \E r \in Requests : task[r].kind = "handle" /\ task[r].pc = "threw"
    /\ \E r \in Requests : task[r].kind = "fetch_from_walrus" /\ task[r].pc = "rejected"

\* C8 as claimed: a handle call for a path absent from the registry posts
\* nothing, fetches nothing and supplies no response.
C8_Original ==
    \A r \in Requests :
        (/\ task[r].kind = "handle"
         /\ task[r].pc # "threw"
         /\ task[r].quilt_patch_id = Undefined) =>
            /\ log[r] = << >>
            /\ task[r].pc # "resolved"

C10_Original ==
    \A r \in Requests :
        (task[r].kind = "handle" /\ task[r].quilt_patch_id # Undefined) =>
            /\ (\E j \in 1..Len(Settles(r)) : ~FailedSettle(Settles(r)[j])) =>
                  /\ task[r].pc \in {"notify_success", "resolved"}
                  /\ PostsOf(r, "VERSUI_ERROR") = << >>
                  /\ task[r].pc = "resolved" => task[r].result.status = 200
            /\ Exhausted(r) =>
                  /\ task[r].pc \in {"notify_error", "resolved"}
                  /\ task[r].pc = "resolved" => task[r].result.status = 502


(***************************************************************************)
(* normalize_path on its own: the helper applied to bounded strings, bare  *)
(* paths as well as strings that begin with 'http'.                        *)
(***************************************************************************)

\* length of the strings normalize_path is applied to, after their prefix
MaxLen == 3

PathAlphabet == {"/", "?", "#", "a", ":"}

Words(n) == UNION {[1..k -> PathAlphabet] : k \in 0..n}

Str_http == <<"h", "t", "t", "p">>
Str_origin == <<"h", "t", "t", "p", ":", "/", "/", "s">>

\* arguments of normalize_path: bare paths, strings that begin with 'http',
\* and URLs of the origin http://s
PathInputs ==
    Words(MaxLen) \cup {Str_http \o w : w \in Words(MaxLen)}
                  \cup {Str_origin \o w : w \in Words(MaxLen)}

\* a call normalize_path(url_or_path); a throw is recorded as InvalidURL
normalize_path_call(url_or_path) ==
    /\ probe' = [op |-> "normalize_path", arg |-> url_or_path,
                 ret |-> normalize_path(url_or_path), at |-> nloads]
    /\ UNCHANGED <<resources, aggregators, success_notified, task, log, nreq,
                   nloads, generation, load_result, overlap, loaded,
                       caching_vars>>

NextPure == \E url_or_path \in PathInputs : normalize_path_call(url_or_path)

SpecPure == Init /\ [][NextPure]_vars

\* C13: normalize_path is idempotent: whenever normalize_path(x) returns,
\* normalizing its result again returns the same string
C13_Original ==
    (probe.op = "normalize_path" /\ probe.ret # InvalidURL)
        => normalize_path(probe.ret) = probe.ret

\* C14: the result of normalize_path has no '?' query and no '#' fragment,
\* starts with '/' and so is never shorter than '/'
C14_Original ==
    (probe.op = "normalize_path" /\ probe.ret # InvalidURL)
        => /\ Len(probe.ret) >= 1
           /\ probe.ret[1] = "/"
           /\ \A k \in 1..Len(probe.ret) : probe.ret[k] \notin {"?", "#"}

\* C17: normalize_path never raises an error: every call returns a string,
\* also for strings that begin with 'http' and are not valid URLs
C17_Original ==
    probe.op = "normalize_path" => probe.ret # InvalidURL


(***************************************************************************)
(* load and handles on their own: bootstrap messages of every shape the    *)
(* validation of load distinguishes, and registries whose raw keys         *)
(* collide, are not canonical, or make normalize_path throw.               *)
(***************************************************************************)

JsString == [type |-> "string"]

Str_a_slashes == <<"h", "t", "t", "p", ":", "/", "/", "a", "/", "/">>
Str_b_slash == <<"h", "t", "t", "p", ":", "/", "/", "b", "/">>
Str_P == <<"/", "P", ".", "j", "s">>

\* arguments of load
LoadCases ==
    { [aggregators |-> JsUndefined,
       resources |-> JsObject(<< <<Str_p, <<"1">> >> >>)],
      [aggregators |-> JsString,
       resources |-> JsObject(<< <<Str_p, <<"1">> >> >>)],
      [aggregators |-> JsArray(<< >>), resources |-> JsNull],
      [aggregators |-> JsArray(<<Str_a>>), resources |-> JsUndefined],
      [aggregators |-> JsArray(<<Str_a>>), resources |-> JsNull],
      [aggregators |-> JsArray(<<Str_a>>), resources |-> JsString],
      [aggregators |-> JsArray(<<Str_a>>), resources |-> JsArray(<< >>)],
      [aggregators |-> JsArray(<<Str_a, <<"x">>, << >> >>),
       resources |-> JsObject(<< <<Str_p, <<"1">> >> >>)],
      [aggregators |-> JsArray(<<Str_a_slashes, Str_b_slash>>),
       resources |-> JsObject(<< >>)],
      [aggregators |-> JsArray(<<Str_a>>),
       resources |-> JsObject(<< << <<"/", "q">>, <<"1">> >>, <<Str_q, <<"2">> >> >>)],
      [aggregators |-> JsArray(<<Str_b>>),
       resources |-> JsObject(<< << <<"q", "/", "/">>, <<"1">> >>,
                                 << <<"/", "a", "#", "b">>, <<"2">> >> >>)],
      [aggregators |-> JsArray(<<Str_a>>),
       resources |-> JsObject(<< <<Str_p, <<"1">> >>,
                                 << <<"h", "t", "t", "p", "a">>, <<"2">> >>,
                                 << <<"/", "z">>, <<"3">> >> >>)],
      [aggregators |-> JsArray(<<Str_a_slash, Str_b>>),
       resources |-> JsObject(<< <<Str_P, <<"1">> >>, << <<"/">>, <<"2">> >> >>)] }

\* request.url of the requests handles is asked about
HandlesUrls ==
    { Str_origin,
      Str_origin \o <<"/", "q", "/">>,
      Str_origin \o <<"/", "q", "?", "a">>,
      Str_origin \o Str_p,
      Str_origin \o Str_P,
      Str_origin \o <<"/", "z">>,
      Str_origin \o <<"/", "a", "#", "b">> }

\* handles(request)
handles(url) ==
    /\ probe' = [op |-> "handles", arg |-> url,
                 ret |-> MapHas(resources, normalize_path(url)), at |-> nloads]
    /\ UNCHANGED <<resources, aggregators, success_notified, task, log, nreq,
                   nloads, generation, load_result, overlap, loaded,
                       caching_vars>>

NextLoad ==
    \/ \E data \in LoadCases : load(data)
    \/ \E url \in HandlesUrls : handles(url)

SpecLoad == Init /\ [][NextLoad]_vars

\* C11: load throws 'load() requires non-empty aggregators array' when
\* aggregators is missing, not an array or empty; 'load() requires resources
\* object' when resources is missing, null, not an object or an array;
\* 'Invalid aggregator URL: <entry>' for the first entry that is not a valid
\* absolute URL; and returns for a non-empty list of valid URLs with any plain
\* object
C11_Original ==
    nloads > 0 =>
        LET agg == load_result.argument.aggregators
            res == load_result.argument.resources
        IN  IF agg.type # "array" \/ agg = JsArray(<< >>)
            THEN /\ load_result.threw
                 /\ load_result.message =
                        <<"load() requires non-empty aggregators array">>
            ELSE IF res.type # "object"
            THEN /\ load_result.threw
                 /\ load_result.message = <<"load() requires resources object">>
            ELSE IF \E k \in 1..Len(agg.items) : ~URL_ok(agg.items[k])
            THEN /\ load_result.threw
                 /\ \E k \in 1..Len(agg.items) :
                        /\ ~URL_ok(agg.items[k])
                        /\ \A j \in 1..(k - 1) : URL_ok(agg.items[j])
                        /\ load_result.message =
                               <<"Invalid aggregator URL: ">> \o agg.items[k]
            ELSE ~load_result.threw

\* stored keys that are canonical paths: a leading '/', no trailing '/' unless
\* the path is '/', no query and no fragment
CanonicalPath(key) ==
    /\ Len(key) >= 1
    /\ key[1] = "/"
    /\ Len(key) > 1 => key[Len(key)] # "/"
    /\ \A k \in 1..Len(key) : key[k] \notin {"?", "#"}

\* C15: in every reachable state every key stored in the registry is
\* canonical
C15_Original == \A key \in DOMAIN resources : CanonicalPath(key)

\* the keys the latest load call that returned has installed
InstalledKeys ==
    IF loaded = JsUndefined THEN {}
    ELSE {normalize_path(loaded.resources.entries[k][1]) :
            k \in 1..Len(loaded.resources.entries)}

\* C16: handles(request) is true exactly when normalize_path(request.url) is a
\* key installed by the most recent successful load, and false before any load
C16_Original ==
    (probe.op = "handles" /\ probe.at = nloads)
        => (probe.ret <=> normalize_path(probe.arg) \in InstalledKeys)

\* C12 as stated: after a load that returned, for every entry (path, id) of
\* its mapping the registry has the key normalize_path(path) and the lookup
\* of that key returns id
C12_Original ==
    (nloads > 0 /\ ~load_result.threw) =>
        LET entries == load_result.argument.resources.entries
        IN  \A k \in 1..Len(entries) :
                /\ MapHas(resources, normalize_path(entries[k][1]))
                /\ MapGet(resources, normalize_path(entries[k][1])) = entries[k][2]

\* C12: after a load that returned, for every entry (path, id) of its mapping
\* the registry has the key normalize_path(path), handles is true for a
\* request whose URL normalizes to it, and the lookup of that key returns the
\* id of the last entry of the mapping whose path normalizes to that key
C12_LastEntryWins ==
    (nloads > 0 /\ ~load_result.threw) =>
        LET entries == load_result.argument.resources.entries
            key(k) == normalize_path(entries[k][1])
        IN  \A k \in 1..Len(entries) :
                /\ MapHas(resources, key(k))
                /\ \E j \in k..Len(entries) :
                       /\ key(j) = key(k)
                       /\ \A i \in (j + 1)..Len(entries) : key(i) # key(k)
                       /\ MapGet(resources, key(k)) = entries[j][2]
                /\ (probe.op = "handles" /\ probe.at = nloads
                        /\ normalize_path(probe.arg) = key(k)) => probe.ret

\* a load returned whose mapping has two raw keys with the same normalized
\* path and different ids, and handles was asked about that path
C12_Witness ==
    /\ nloads > 0
    /\ ~load_result.threw
    /\ LET entries == load_result.argument.resources.entries
       IN  \E k, j \in 1..Len(entries) :
               /\ k < j
               /\ entries[k][1] # entries[j][1]
               /\ normalize_path(entries[k][1]) = normalize_path(entries[j][1])
               /\ entries[k][2] # entries[j][2]
               /\ probe.op = "handles"
               /\ probe.at = nloads
               /\ normalize_path(probe.arg) = normalize_path(entries[k][1])
               /\ probe.ret


(***************************************************************************)
(* The Content-Type of served responses: handle calls made one after       *)
(* another for paths with known, upper-case, unknown, several and no       *)
(* extensions, against one aggregator that answers 200, 204 or 500.        *)
(***************************************************************************)

MimePaths ==
    << <<"/", "a", ".", "j", "s">>,
       <<"/", "a", ".", "J", "S">>,
       <<"/", "a", ".", "b", ".", "c", "s", "s">>,
       <<"/", "a">>,
       <<"/", "a", ".", "z", "z">>,
       <<"/", "a", ".", "j", "s", "/", "b">>,
       <<"/", "a", ".">>,
       <<"/", ".", "s", "v", "g">> >>

\* the bootstrap message that registers every path of MimePaths
MimeLoad ==
    [aggregators |-> JsArray(<<Str_a>>),
     resources |-> JsObject([k \in 1..Len(MimePaths) |-> <<MimePaths[k], <<"1">> >>])]

MimeUrls == {Str_origin \o MimePaths[k] : k \in 1..Len(MimePaths)}

MimeStatuses == {200, 204, 500}

NextMime ==
    \/ AllSettled /\ load(MimeLoad)
    \/ \E r \in Requests, url \in MimeUrls : AllSettled /\ handle(r, url)
    \/ \E r \in Requests : notify_clients(r)
    \/ \E r \in Requests, status \in MimeStatuses : FetchResponds(r, status)

SpecMime == Init /\ [][NextMime]_vars

\* C18: every handle call that resolves after try_aggregators returned a
\* response resolves with status 200 and the Content-Type of its normalized
\* path: the MIME_TYPES entry of the lower-cased substring from the last '.',
\* 'application/octet-stream' when there is no '.' or no such entry; never the
\* status or the Content-Type of the aggregator's response
C18_MimeOfPath ==
    \A r \in Requests :
        (task[r].kind = "handle" /\ task[r].pc = "resolved" /\ Returned(r)) =>
            LET t == task[r]
                path == normalize_path(t.url)
                dots == {k \in 1..Len(path) : path[k] = "."}
                type == t.result.content_type
            IN  /\ t.result.status = 200
                /\ t.result.body = t.response.body
                /\ IF dots = {} THEN type = "application/octet-stream"
                   ELSE LET last == CHOOSE k \in dots : \A j \in dots : j <= k
                            ext == toLowerCase(SubSeq(path, last, Len(path)))
                        IN  IF \E e \in MIME_TYPES : e[1] = ext
                            THEN <<ext, type>> \in MIME_TYPES
                            ELSE type = "application/octet-stream"

\* a path with an upper-case extension was served as text/javascript from an
\* aggregator response with status 204, and so was a path whose last '.' is
\* followed by no known extension, as application/octet-stream
C18_Witness ==
    \E r, q \in Requests :
        /\ task[r].kind = "handle" /\ task[r].pc = "resolved" /\ Returned(r)
        /\ task[r].path = <<"/", "a", ".", "J", "S">>
        /\ task[r].response.status = 204
        /\ task[r].result.content_type = "text/javascript"
        /\ task[q].kind = "handle" /\ task[q].pc = "resolved" /\ Returned(q)
        /\ task[q].path = <<"/", "a", ".", "j", "s", "/", "b">>
        /\ task[q].result.content_type = "application/octet-stream"


(***************************************************************************)
(* The aggregator list: load calls whose entries end in no, one or two     *)
(* '/', and handle / fetch_from_walrus calls made one after another that   *)
(* walk the stored list.                                                   *)
(***************************************************************************)

EndpointLoads ==
    { [aggregators |-> JsArray(<<Str_a_slashes, Str_b_slash, Str_a>>),
       resources |-> JsObject(<< <<Str_p, <<"1">> >> >>)],
      [aggregators |-> JsArray(<<Str_b, Str_a_slash>>),
       resources |-> JsObject(<< <<Str_p, <<"3">> >> >>)],
      [aggregators |-> JsArray(<<Str_a, <<"x">> >>),
       resources |-> JsObject(<< <<Str_p, <<"1">> >> >>)] }

EndpointUrls == {Str_origin \o Str_p}

NextEndpoints ==
    \/ \E data \in EndpointLoads : AllSettled /\ load(data)
    \/ \E r \in Requests, url \in EndpointUrls : AllSettled /\ handle(r, url)
    \/ \E r \in Requests : AllSettled /\ fetch_from_walrus(r, Str_p)
    \/ \E r \in Requests : notify_clients(r)
    \/ \E r \in Requests, status \in Statuses : FetchResponds(r, status)
    \/ \E r \in Requests : FetchThrows(r)
    \/ \E r \in Requests : TimeoutFires(r)

SpecEndpoints == Init /\ [][NextEndpoints]_vars

\* C19: the stored list is the list of the latest load that returned, in its
\* order, each entry without its last character when that is '/' (one '/'
\* only); a call in flight walks the stored list, and its j-th attempt
\* requests exactly the j-th stored endpoint + '/v1/blobs/' + the content id
C19_EndpointUrls ==
    /\ loaded # JsUndefined =>
           LET items == loaded.aggregators.items
           IN  /\ Len(aggregators) = Len(items)
               /\ \A k \in 1..Len(items) :
                      IF Len(items[k]) > 0 /\ items[k][Len(items[k])] = "/"
                      THEN aggregators[k] = SubSeq(items[k], 1, Len(items[k]) - 1)
                      ELSE aggregators[k] = items[k]
    /\ \A r \in Requests :
           /\ (Traversing(r) /\ InFlight(task[r])) => task[r].aggs = aggregators
           /\ \A j \in 1..Len(Fetches(r)) :
                  Fetches(r)[j].url =
                      task[r].aggs[j] \o <<"/v1/blobs/">> \o task[r].quilt_patch_id

\* a call attempted all three endpoints of the list ['http://a//',
\* 'http://b/', 'http://a']: 'http://a/', then 'http://b', then 'http://a'
C19_Witness ==
    \E r \in Requests :
        /\ loaded # JsUndefined
        /\ loaded.aggregators.items = <<Str_a_slashes, Str_b_slash, Str_a>>
        /\ Len(Fetches(r)) = 3
        /\ Fetches(r)[1].url = Str_a_slash \o <<"/v1/blobs/">> \o <<"1">>
        /\ Fetches(r)[2].url = Str_b \o <<"/v1/blobs/">> \o <<"1">>
        /\ Fetches(r)[3].url = Str_a \o <<"/v1/blobs/">> \o <<"1">>


(***************************************************************************)
(* fetch_from_walrus and the notifications                                 *)
(***************************************************************************)

\* C20: a fetch_from_walrus call posts no message, whatever its outcome, and
\* resolves with the aggregator's response as it is; the flag is set exactly
\* when a handle call has posted VERSUI_SUCCESS in the current generation, so
\* a direct fetch neither sets nor clears it
C20_DirectFetchIsSilent ==
    /\ \A r \in Requests :
           task[r].kind = "fetch_from_walrus" =>
               /\ Posts(r) = << >>
               /\ task[r].pc \in {"fetching", "resolved", "rejected"}
               /\ task[r].pc = "resolved" => task[r].result = task[r].response
    /\ success_notified <=> SuccessCount(generation) >= 1
    /\ \A r \in Requests :
           PostsOf(r, "VERSUI_SUCCESS") # << >> => task[r].kind = "handle"

\* after one load, a direct fetch resolved with an ok response, and the
\* handle call made after it was served and posted VERSUI_SUCCESS
C20_Witness ==
    /\ ~overlap
    /\ generation = 1
    /\ task[1].kind = "fetch_from_walrus"
    /\ task[1].pc = "resolved"
    /\ ResponseOk(task[1].result.status)
    /\ task[2].kind = "handle"
    /\ Served(2)
    /\ Len(PostsOf(2, "VERSUI_SUCCESS")) = 1


(***************************************************************************)
(* fetch_from_walrus on its own: direct fetches of registered and          *)
(* unregistered paths, with and without a leading '/', with a query, and   *)
(* of a bare path that begins with 'http'.                                 *)
(***************************************************************************)

DirectPathsWide ==
    DirectPaths \cup { <<"/", "p", ".", "j", "s", "?", "v">>,
                       <<"h", "t", "t", "p", "a">> }

NextDirect ==
    \/ \E data \in LoadInputs : load(data)
    \/ \E r \in Requests, path \in DirectPathsWide : fetch_from_walrus(r, path)
    \/ \E r \in Requests, status \in Statuses : FetchResponds(r, status)
    \/ \E r \in Requests : FetchThrows(r)
    \/ \E r \in Requests : TimeoutFires(r)

SpecDirect == Init /\ [][NextDirect]_vars

\* C21: a fetch_from_walrus call on an initialized handler that issues no
\* attempt has rejected with 'Resource not found: <normalized path>'; one that
\* issues attempts rejects with the last failure when every endpoint failed,
\* and otherwise resolves with the ok response of the last attempt issued
C21_Original ==
    \A r \in Requests :
        (task[r].kind = "fetch_from_walrus" /\ task[r].result # NotInitialized) =>
            LET t == task[r]
            IN  IF Fetches(r) = << >>
                THEN /\ t.pc = "rejected"
                     /\ t.result.message =
                            <<"Resource not found: ">> \o normalize_path(t.url)
                ELSE \/ t.pc = "fetching"
                     \/ /\ t.pc = "rejected"
                        /\ Exhausted(r)
                        /\ t.result = t.last_error
                        /\ t.result.attempt = Len(t.aggs)
                     \/ /\ t.pc = "resolved"
                        /\ ~FailedSettle(Settles(r)[Len(Settles(r))])
                        /\ \A j \in 1..(Len(Settles(r)) - 1) : FailedSettle(Settles(r)[j])
                        /\ t.result = t.response
                        /\ t.result.body = Fetches(r)[Len(Fetches(r))].url


(***************************************************************************)
(* The per-attempt timeout                                                 *)
(***************************************************************************)

\* position in log[r] of the settle event of attempt j
SettlePosition(r, j) ==
    CHOOSE k \in 1..Len(log[r]) :
        log[r][k].ev \in {"response", "throw", "abort"} /\ log[r][k].attempt = j

\* C22: an attempt whose timer fired is aborted and counts as a failure of its
\* endpoint: the call is never left waiting on it.  If the endpoint was not
\* the last of the list, the next event of the call is the attempt to the next
\* endpoint; if it was the last, the traversal ends with the AbortError as
\* its failure, which handle turns into VERSUI_ERROR and the 502 response
C22_TimeoutIsFailure ==
    \A r \in Requests :
        \A j \in 1..Len(Settles(r)) :
            Settles(r)[j].ev = "abort" =>
                LET t == task[r]
                    k == SettlePosition(r, j)
                IN  /\ ~(t.pc = "fetching" /\ t.i = j)
                    /\ ~Returned(r) \/ Len(Fetches(r)) > j
                    /\ IF j < Len(t.aggs)
                       THEN /\ Len(log[r]) > k
                            /\ log[r][k + 1] =
                                   FetchEvent(t.aggs[j + 1] \o <<"/v1/blobs/">>
                                                  \o Interpolate(t.quilt_patch_id),
                                              j + 1)
                       ELSE /\ t.last_error = AbortError(j)
                            /\ IF t.kind = "handle"
                               THEN /\ t.pc \in {"notify_error", "resolved"}
                                    /\ t.pc = "resolved" =>
                                           /\ t.result.status = 502
                                           /\ Len(PostsOf(r, "VERSUI_ERROR")) = 1
                               ELSE t.pc = "rejected" /\ t.result = AbortError(j)

\* the first endpoint of two timed out and the second answered ok, and a call
\* whose last endpoint timed out got the 502 response
C22_Witness ==
    \E r, q \in Requests :
        /\ Len(task[r].aggs) = 2
        /\ Served(r)
        /\ Len(Settles(r)) = 2
        /\ Settles(r)[1].ev = "abort"
        /\ task[r].result.body = BlobUrl(task[r].aggs[2], task[r].quilt_patch_id)
        /\ task[q].kind = "handle"
        /\ task[q].pc = "resolved"
        /\ Exhausted(q)
        /\ Settles(q)[Len(task[q].aggs)].ev = "abort"
        /\ task[q].result.status = 502


(***************************************************************************)
(* Requests and the configuration: load, handles, handle and               *)
(* fetch_from_walrus called one after another.                             *)
(***************************************************************************)

NextRequests ==
    \/ \E data \in LoadInputs : AllSettled /\ load(data)
    \/ \E url \in EndpointUrls : AllSettled /\ handles(url)
    \/ \E r \in Requests, url \in RequestUrls : AllSettled /\ handle(r, url)
    \/ \E r \in Requests, path \in DirectPaths : AllSettled /\ fetch_from_walrus(r, path)
    \/ \E r \in Requests : notify_clients(r)
    \/ \E r \in Requests, status \in Statuses : FetchResponds(r, status)
    \/ \E r \in Requests : FetchThrows(r)
    \/ \E r \in Requests : TimeoutFires(r)

SpecRequests == Init /\ [][NextRequests]_vars

\* a step of handles, handle or fetch_from_walrus (every step but load's)
\* leaves the registry and the endpoint list as they are, and changes the
\* flag only to set it, when a handle call whose fetch succeeded has
\* broadcast VERSUI_SUCCESS
RequestStepKeepsConfiguration ==
    nloads' = nloads =>
        /\ resources' = resources
        /\ aggregators' = aggregators
        /\ generation' = generation
        /\ success_notified' # success_notified =>
               /\ success_notified'
               /\ \E r \in Requests :
                      /\ task[r].kind = "handle"
                      /\ task[r].pc = "notify_success"
                      /\ Returned(r)
                      /\ task'[r].pc = "resolved"
                      /\ task'[r].result.status = 200

\* a handle call whose fetch succeeded is served with 200, and VERSUI_SUCCESS
\* has been broadcast in its generation, by itself or by a call before it,
\* whatever failed before
SuccessAfterFailures ==
    \A r \in Requests :
        (task[r].kind = "handle" /\ task[r].pc = "resolved" /\ Returned(r)) =>
            /\ task[r].result.status = 200
            /\ \E q \in 1..r :
                   \E k \in 1..Len(PostsOf(q, "VERSUI_SUCCESS")) :
                       PostsOf(q, "VERSUI_SUCCESS")[k].gen = Posts(r)[1].gen

InitializedForGood ==
    /\ (generation = 0) = (aggregators = << >>)
    /\ \A r \in Requests :
           Fetches(r) # << >> => (generation >= 1 /\ Len(task[r].aggs) > 0)

\* a step never empties the endpoint list; a call made in the step fails as
\* not initialized exactly when no load has returned yet; a load that returns
\* leaves the flag reset
StaysInitialized ==
    /\ aggregators # << >> => aggregators' # << >>
    /\ generation' # generation =>
           (generation' = generation + 1 /\ ~success_notified')
    /\ \A r \in Requests :
           (task[r].pc = "idle" /\ task'[r].pc # "idle") =>
               ((task'[r].result = NotInitialized) = (generation = 0))

\* C24: no attempt is issued while the endpoint list is empty, and once a load
\* has succeeded the list is never empty again: no load, returning or
\* throwing, and no request brings back the state in which handle throws
\* 'Handler not initialized'
C24_InitializedForGood ==
    [](InitializedForGood) /\ [][StaysInitialized]_vars

\* after a load that returned, a load threw, and the handle call made after it
\* is fetching from the endpoints of the first
C24_Witness ==
    /\ ~overlap
    /\ nloads = 2
    /\ generation = 1
    /\ load_result.threw
    /\ task[1].kind = "handle"
    /\ task[1].pc = "fetching"
    /\ task[1].aggs = aggregators


(***************************************************************************)
(* The endpoint list of a call in flight                                   *)
(***************************************************************************)

\* the endpoints a call has attempted are, in order, the first ones of its
\* list
AttemptsArePrefix ==
    \A r \in Requests :
        /\ Len(Fetches(r)) <= Len(task[r].aggs)
        /\ \A j \in 1..Len(Fetches(r)) :
               Fetches(r)[j].url =
                   task[r].aggs[j] \o <<"/v1/blobs/">>
                       \o Interpolate(task[r].quilt_patch_id)

\* the list of a call is the handler's list at the step its traversal begins,
\* and no later step, load's included, changes it
ListFixedAtStart ==
    \A r \in Requests :
        /\ (task[r].aggs = << >> /\ task'[r].aggs # << >>) =>
               task'[r].aggs = aggregators
        /\ task[r].aggs # << >> => task'[r].aggs = task[r].aggs

\* C30: the endpoints one request attempts are a prefix of one single list,
\* the list installed when its traversal began; a load that completes while
\* the request is suspended in try_aggregators changes neither the endpoints
\* it has left to try nor their order
C30_EndpointListPerRequest ==
    [](AttemptsArePrefix) /\ [][ListFixedAtStart]_vars

\* a request made its second attempt at the second endpoint of the two-entry
\* list it began with, while a later load has installed a one-entry list
C30_Witness ==
    \E r \in Requests :
        /\ task[r].pc = "fetching"
        /\ task[r].aggs = <<Str_a, Str_b>>
        /\ aggregators = <<Str_b>>
        /\ Len(Fetches(r)) = 2
        /\ Fetches(r)[2].url = BlobUrl(Str_b, task[r].quilt_patch_id)


(***************************************************************************)
(* The caching variant of the handler (src/unnamed/part_000): resources    *)
(* are merged by load, the aggregators are fixed at construction, and      *)
(* responses are kept in a named cache when options.cache_name is set.     *)
(* Its operations carry the prefix caching_.  The Content-Type header of   *)
(* its responses is looked up in a table of ./mime-types.js and is not     *)
(* part of the responses modelled here.                                    *)
(***************************************************************************)

DEFAULT_AGGREGATORS ==
    << <<"https://aggregator.walrus.site">>,
       <<"https://walrus.site">>,
       <<"https://aggregator.walrus-testnet.walrus.space">>,
       <<"https://aggregator.testnet.blob.store">> >>

\* options.aggregators
CustomAggregators == { << >>, <<Str_a, Str_b>> }

\* options.cache_name
CacheName == [type |-> "string", value |-> <<"versui-v1">>]
CacheNames == {JsNull, CacheName}

Truthy(v) == v.type = "string" /\ v.value # << >>

Str_root == <<"/">>
Str_js == <<"/", "a", ".", "j", "s">>

\* options.resources
InitialResources == { << >>, (Str_js :> <<"0">>) }

\* arguments of load
ResourceMaps ==
    { (Str_root :> <<"1">>) @@ (Str_js :> <<"2">>),
      (Str_js :> <<"3">>) }

\* event.request.url of the fetch events
CachingUrls ==
    { Str_origin \o Str_root,
      Str_origin \o Str_js,
      Str_origin \o <<"/", "z">> }

\* the merge of the custom aggregators with the defaults, with the bug of
\* putting the defaults first
MergeAggregators_defaults_first(custom) ==
    IF Len(custom) > 0 THEN DEFAULT_AGGREGATORS \o custom ELSE DEFAULT_AGGREGATORS

\* aggregators.length > 0 ? [...aggregators, ...DEFAULT_AGGREGATORS]
\*                        : DEFAULT_AGGREGATORS
MergeAggregators(custom) ==
    IF Len(custom) > 0 THEN custom \o DEFAULT_AGGREGATORS ELSE DEFAULT_AGGREGATORS

\* create_versui_handler(options)
InitCaching ==
    /\ resources \in InitialResources
    /\ given = <<resources>>
    /\ \E custom \in CustomAggregators :
          final_aggregators = MergeAggregators(custom)
    /\ cache_name \in CacheNames
    /\ site_installed = FALSE
    /\ cache = << >>
    /\ puts = {}
    /\ aggregators = << >>
    /\ success_notified = FALSE
    /\ task = [r \in Requests |-> NoTask]
    /\ log = [r \in Requests |-> << >>]
    /\ nreq = 0
    /\ nloads = 0
    /\ generation = 0
    /\ load_result = NoLoad
    /\ overlap = FALSE
    /\ loaded = JsUndefined
    /\ probe = NoProbe

\* { ...resources, ...new_resources }
Spread(old, new) ==
    [key \in DOMAIN old \cup DOMAIN new |->
        IF key \in DOMAIN new THEN new[key] ELSE old[key]]

\* caching_load with the bug of replacing the resources
caching_load_replaces(new_resources) ==
    /\ nloads < MaxLoads
    /\ nloads' = nloads + 1
    /\ resources' = new_resources
    /\ given' = Append(given, new_resources)
    /\ overlap' = (overlap \/ ~AllSettled)
    /\ UNCHANGED <<aggregators, success_notified, task, log, nreq, generation,
                   load_result, loaded, probe, final_aggregators, site_installed,
                   cache_name, cache, puts>>

\* load(new_resources) of the caching variant
caching_load(new_resources) ==
    /\ nloads < MaxLoads
    /\ nloads' = nloads + 1
    /\ resources' = Spread(resources, new_resources)
    /\ given' = Append(given, new_resources)
    /\ overlap' = (overlap \/ ~AllSettled)
    /\ UNCHANGED <<aggregators, success_notified, task, log, nreq, generation,
                   load_result, loaded, probe, final_aggregators, site_installed,
                   cache_name, cache, puts>>

\* handles(request) of the caching variant: pathname in resources
caching_handles(url) ==
    /\ probe' = [op |-> "handles", arg |-> url,
                 ret |-> URL_pathname(url) \in DOMAIN resources, at |-> nloads]
    /\ UNCHANGED <<resources, aggregators, success_notified, task, log, nreq,
                   nloads, generation, load_result, overlap, loaded, caching_vars>>

\* `${aggregator}/v1/blobs/by-quilt-patch-id/${blob_id}`
QuiltPatchUrl(aggregator, blob_id) ==
    aggregator \o <<"/v1/blobs/by-quilt-patch-id/">> \o Interpolate(blob_id)

\* new Response(await response.blob(), { headers: ... })
WalrusResponse(url) == [status |-> 200, body |-> url]

\* new Response('Resource unavailable', { status: 404 })
UnavailableResponse == [status |-> 404, body |-> <<"Resource unavailable">>]

CachingLoadingMessage ==
    [type |-> "VERSUI_LOADING",
     message |-> <<"Site is being fetched from <span class=\"gradient\">Walrus</span> and installed in your browser">>]

\* pathname === '/' || pathname === '/index.html'
IsIndex(pathname) ==
    pathname \in { <<"/">>, <<"/", "i", "n", "d", "e", "x", ".", "h", "t", "m", "l">> }

CacheEvent(ev, hit) == [ev |-> ev, hit |-> hit]

\* if (cache_name && response && response.ok), with the bug of leaving out
\* response.ok
ShouldCache_any_response(response) ==
    Truthy(cache_name) /\ response # JsNull

\* if (cache_name && response && response.ok)
ShouldCache(response) ==
    Truthy(cache_name) /\ response # JsNull /\ ResponseOk(response.status)

\* fetch_from_walrus has resolved with response for the call r in state t,
\* after the events it logged.  A direct call is over; handle starts
\* cache.put without awaiting it when the response is to be cached,
\* broadcasts VERSUI_SUCCESS for the first index page cached, and returns the
\* response
caching_return(r, t, response, events) ==
    LET store == t.kind = "caching_handle" /\ ShouldCache(response)
        announce == store /\ ~site_installed /\ IsIndex(t.path)
    IN  /\ task' = [task EXCEPT ![r] =
                       [t EXCEPT !.pc = "resolved", !.result = response]]
        /\ log' = [log EXCEPT ![r] =
                      @ \o events
                        \o (IF store
                            THEN <<CacheEvent("cache_open", FALSE),
                                   CacheEvent("cache_put", FALSE)>>
                            ELSE << >>)
                        \o (IF announce
                            THEN <<PostEvent(SuccessMessage, Clients)>>
                            ELSE << >>)]
        /\ puts' = IF store
                   THEN puts \cup {[url |-> t.url, response |-> response, by |-> r]}
                   ELSE puts
        /\ site_installed' = (site_installed \/ announce)

\* fetch_from_walrus(pathname) of the caching variant up to its first
\* suspension, for the call r in state t, after the events the caller logged
caching_enter_fetch(r, t, events) ==
    LET blob_id == MapGet(resources, t.path)
        loading == IF IsIndex(t.path)
                   THEN <<PostEvent(CachingLoadingMessage, Clients)>>
                   ELSE << >>
    IN  IF Falsy(blob_id)
        THEN caching_return(r, t, JsNull, events)
        ELSE /\ task' = [task EXCEPT ![r] =
                            [t EXCEPT !.pc = "fetching", !.quilt_patch_id = blob_id,
                                      !.aggs = final_aggregators, !.i = 1]]
             /\ log' = [log EXCEPT ![r] =
                           @ \o events \o loading
                             \o <<FetchEvent(QuiltPatchUrl(final_aggregators[1], blob_id),
                                             1)>>]
             /\ UNCHANGED <<puts, site_installed>>

\* fetch_from_walrus(pathname) of the caching variant, called directly
caching_fetch_from_walrus(r, pathname) ==
    /\ nreq < MaxRequests
    /\ r = nreq + 1
    /\ nreq' = r
    /\ overlap' = (overlap \/ ~AllSettled)
    /\ caching_enter_fetch(r, [NoTask EXCEPT !.kind = "caching_fetch_from_walrus",
                                            !.url = pathname, !.path = pathname],
                           << >>)
    /\ UNCHANGED <<resources, aggregators, success_notified, nloads, generation,
                   load_result, loaded, probe, final_aggregators, cache_name,
                   cache, given>>

\* handle(event) of the caching variant up to its first suspension
caching_handle(r, url) ==
    LET pathname == URL_pathname(url)
        started == [NoTask EXCEPT !.kind = "caching_handle", !.url = url,
                                  !.path = pathname]
    IN  /\ nreq < MaxRequests
        /\ r = nreq + 1
        /\ nreq' = r
        /\ overlap' = (overlap \/ ~AllSettled)
        /\ IF pathname \notin DOMAIN resources
           THEN /\ task' = [task EXCEPT ![r] = [started EXCEPT !.pc = "declined"]]
                /\ UNCHANGED <<log, puts, site_installed>>
           ELSE IF Truthy(cache_name)
           THEN /\ task' = [task EXCEPT ![r] = [started EXCEPT !.pc = "cache_match"]]
                /\ log' = [log EXCEPT ![r] = Append(@, CacheEvent("cache_open", FALSE))]
                /\ UNCHANGED <<puts, site_installed>>
           ELSE caching_enter_fetch(r, started, << >>)
        /\ UNCHANGED <<resources, aggregators, success_notified, nloads, generation,
                       load_result, loaded, probe, final_aggregators, cache_name,
                       cache, given>>

\* caching_cache_match with the bug of fetching from the aggregators although
\* the request was found in the cache
caching_cache_match_ignores_hit(r) ==
    LET t == task[r]
    IN  /\ t.pc = "cache_match"
        /\ caching_enter_fetch(r, t, <<CacheEvent("cache_match",
                                                  t.url \in DOMAIN cache)>>)
        /\ UNCHANGED <<resources, aggregators, success_notified, nreq, nloads,
                       generation, load_result, overlap, loaded, probe,
                       final_aggregators, cache_name, cache, given>>

\* caches.open and cache.match(event.request) have resolved
caching_cache_match(r) ==
    LET t == task[r]
    IN  /\ t.pc = "cache_match"
        /\ IF t.url \in DOMAIN cache
           THEN /\ task' = [task EXCEPT ![r] =
                               [t EXCEPT !.pc = "resolved", !.result = cache[t.url]]]
                /\ log' = [log EXCEPT ![r] = Append(@, CacheEvent("cache_match", TRUE))]
                /\ UNCHANGED <<puts, site_installed>>
           ELSE caching_enter_fetch(r, t, <<CacheEvent("cache_match", FALSE)>>)
        /\ UNCHANGED <<resources, aggregators, success_notified, nreq, nloads,
                       generation, load_result, overlap, loaded, probe,
                       final_aggregators, cache_name, cache, given>>

\* how a failed attempt is logged: the loop of the caching variant does not
\* look at the status or at the error
FailedEvent(attempt) == SettleEvent("failed", attempt, 0)

\* the attempt in flight failed (not ok, or the fetch rejected): the loop goes
\* on to the next aggregator, or fetch_from_walrus returns the 404 response
caching_attempt_failed(r) ==
    LET t == task[r]
    IN  IF t.i < Len(t.aggs)
        THEN /\ task' = [task EXCEPT ![r] = [t EXCEPT !.i = t.i + 1]]
             /\ log' = [log EXCEPT ![r] =
                           @ \o <<FailedEvent(t.i),
                                  FetchEvent(QuiltPatchUrl(t.aggs[t.i + 1],
                                                           t.quilt_patch_id),
                                             t.i + 1)>>]
             /\ UNCHANGED <<puts, site_installed>>
        ELSE caching_return(r, t, UnavailableResponse, <<FailedEvent(t.i)>>)

\* the aggregator answers the attempt in flight with a status; on an ok
\* answer fetch_from_walrus returns the response built from the blob
caching_FetchResponds(r, status) ==
    LET t == task[r]
        response == WalrusResponse(QuiltPatchUrl(t.aggs[t.i], t.quilt_patch_id))
    IN  /\ t.pc = "fetching"
        /\ IF ResponseOk(status)
           THEN caching_return(r, [t EXCEPT !.response = response], response,
                               <<SettleEvent("response", t.i, status)>>)
           ELSE caching_attempt_failed(r)
        /\ UNCHANGED <<resources, aggregators, success_notified, nreq, nloads,
                       generation, load_result, overlap, loaded, probe,
                       final_aggregators, cache_name, cache, given>>

\* the fetch of the attempt in flight rejects
caching_FetchThrows(r) ==
    /\ task[r].pc = "fetching"
    /\ caching_attempt_failed(r)
    /\ UNCHANGED <<resources, aggregators, success_notified, nreq, nloads,
                   generation, load_result, overlap, loaded, probe,
                   final_aggregators, cache_name, cache, given>>

\* a cache.put that was started completes: the response is stored under the
\* request's URL, replacing what was stored there
caching_put_completes(put) ==
    /\ put \in puts
    /\ puts' = puts \ {put}
    /\ cache' = [key \in DOMAIN cache \cup {put.url} |->
                    IF key = put.url THEN put.response ELSE cache[key]]
    /\ UNCHANGED <<resources, aggregators, success_notified, task, log, nreq,
                   nloads, generation, load_result, overlap, loaded, probe,
                   final_aggregators, site_installed, cache_name, given>>

\* pathname of the direct calls of fetch_from_walrus
CachingPaths == { Str_js, <<"/", "z">> }

\* calls on a handler of the caching variant, at any time; cache writes
\* complete at any time
NextCaching ==
    \/ \E new_resources \in ResourceMaps : caching_load(new_resources)
    \/ \E r \in Requests, url \in CachingUrls : caching_handle(r, url)
    \/ \E r \in Requests, pathname \in CachingPaths :
          caching_fetch_from_walrus(r, pathname)
    \/ \E r \in Requests : caching_cache_match(r)
    \/ \E r \in Requests, status \in Statuses : caching_FetchResponds(r, status)
    \/ \E r \in Requests : caching_FetchThrows(r)
    \/ \E put \in puts : caching_put_completes(put)

SpecCaching == InitCaching /\ [][NextCaching]_vars

(***************************************************************************)
(* Claims about the cache of the caching variant.                          *)
(***************************************************************************)

CacheEvents(r) ==
    SelectSeq(log[r], LAMBDA e : e.ev \in {"cache_open", "cache_match", "cache_put"})

\* the request of call r was found in the cache
CacheHit(r) ==
    \E k \in 1..Len(log[r]) : log[r][k] = CacheEvent("cache_match", TRUE)

HitIsSilent ==
    \A r \in Requests :
        CacheHit(r) =>
            /\ task[r].pc = "resolved"
            /\ Fetches(r) = << >>
            /\ Posts(r) = << >>

HitReturnsStored ==
    \A r \in Requests :
        (~CacheHit(r) /\ CacheHit(r)') =>
            /\ task[r].url \in DOMAIN cache
            /\ task'[r].result = cache[task[r].url]

PassThrough ==
    ~Truthy(cache_name) =>
        /\ cache = << >>
        /\ puts = {}
        /\ \A r \in Requests :
              /\ CacheEvents(r) = << >>
              /\ (task[r].kind = "caching_handle"
                    /\ task[r].pc \notin {"idle", "declined"})
                 => Len(Fetches(r)) >= 1

\* C25: with cache_name set, a handle call whose request is found in the
\* cache resolves with the stored response, makes no network attempt and
\* posts no message; with cache_name unset the cache is never opened, read or
\* written, and every request handle takes goes to the aggregators
C25_CacheHitIsSilent ==
    [](HitIsSilent /\ PassThrough) /\ [][HitReturnsStored]_vars

\* the second request of an index page was answered from the cache with the
\* response the first one fetched, without any fetch or message
C25_Witness ==
    /\ task[1].kind = "caching_handle"
    /\ task[1].result.status = 200
    /\ Len(PostsOf(1, "VERSUI_SUCCESS")) = 1
    /\ task[2].url = task[1].url
    /\ CacheHit(2)
    /\ task[2].result = task[1].result
    /\ log[2] = <<CacheEvent("cache_open", FALSE), CacheEvent("cache_match", TRUE)>>

\* C26: with cache_name set, when two handle calls for the same request are
\* made one after the other and the first one's fetch succeeded, the second
\* one makes no network attempt, whenever the cache write of the first
\* completes
C26_Original ==
    ( /\ Truthy(cache_name)
      /\ ~overlap
      /\ task[1].kind = "caching_handle"
      /\ task[1].pc = "resolved"
      /\ Len(Fetches(1)) >= 1
      /\ task[1].result.status = 200
      /\ task[2].kind = "caching_handle"
      /\ task[2].url = task[1].url )
    => Fetches(2) = << >>

\* response was built from an ok answer of an aggregator to some call
OkFetchOf(response) ==
    \E r \in Requests : \E k \in 1..(Len(log[r]) - 1) :
        /\ log[r][k].ev = "fetch"
        /\ log[r][k + 1].ev = "response"
        /\ ResponseOk(log[r][k + 1].status)
        /\ response = WalrusResponse(log[r][k].url)

OnlyOkCached ==
    /\ \A url \in DOMAIN cache :
          /\ cache[url] \notin {JsNull, UnavailableResponse}
          /\ OkFetchOf(cache[url])
    /\ \A put \in puts :
          /\ put.response \notin {JsNull, UnavailableResponse}
          /\ OkFetchOf(put.response)
          /\ task[put.by].kind = "caching_handle"
          /\ task[put.by].result = put.response

FailedIsRetried ==
    ( /\ task[1].kind = "caching_handle"
      /\ task[1].result = UnavailableResponse
      /\ task[2].kind = "caching_handle"
      /\ task[2].url = task[1].url
      /\ task[2].pc \notin {"idle", "cache_match"} )
    => Len(Fetches(2)) >= 1

\* C27: the cache, and every cache write under way, holds only responses
\* built from an ok answer of an aggregator, never the 404 'Resource
\* unavailable' response nor a null result; the request that follows a failed
\* one for the same URL goes to the aggregators again
C27_OnlyOkResponsesCached == OnlyOkCached /\ FailedIsRetried

\* the first request ended with the 404 response after every aggregator
\* failed; the second one for the same URL fetched again, and its response is
\* the one in the cache
C27_Witness ==
    /\ Truthy(cache_name)
    /\ task[1].kind = "caching_handle"
    /\ task[1].result = UnavailableResponse
    /\ task[2].kind = "caching_handle"
    /\ task[2].url = task[1].url
    /\ task[2].url \in DOMAIN cache
    /\ cache[task[2].url] = task[2].result
    /\ Len(Fetches(2)) >= 1

(***************************************************************************)
(* Claims about the aggregator list of the caching variant.                *)
(***************************************************************************)

\* the attempts of call r and how each ended
CachingAttempts(r) ==
    SelectSeq(log[r], LAMBDA e : e.ev \in {"fetch", "failed", "response"})

\* call r tried the aggregators of list, from its first one, in order, each
\* after the one before it had failed
TriedInOrder(r, list) ==
    LET attempts == CachingAttempts(r)
    IN  /\ Len(attempts) <= 2 * Len(list)
        /\ \A j \in 1..Len(attempts) :
              IF j % 2 = 1
              THEN /\ attempts[j].ev = "fetch"
                   /\ attempts[j].attempt = (j + 1) \div 2
                   /\ attempts[j].url =
                         QuiltPatchUrl(list[(j + 1) \div 2], task[r].quilt_patch_id)
              ELSE /\ attempts[j].ev \in {"failed", "response"}
                   /\ attempts[j].attempt = j \div 2
                   /\ (j < Len(attempts) => attempts[j].ev = "failed")

\* C29: the aggregators given at construction come before the default ones:
\* every call tries the custom aggregators in the order given, then the
\* default ones in their fixed order, going on to the next one only after a
\* failure; without custom aggregators the list is the default one
C29_CustomAggregatorsFirst ==
    \E custom \in CustomAggregators :
        /\ final_aggregators = custom \o DEFAULT_AGGREGATORS
        /\ \A r \in Requests : TriedInOrder(r, custom \o DEFAULT_AGGREGATORS)

\* a call with two custom aggregators reached the first default aggregator
\* on its third attempt, after both custom ones had failed
C29_Witness ==
    \E r \in Requests :
        LET attempts == CachingAttempts(r)
        IN  /\ Len(attempts) = 5
            /\ task[r].pc = "fetching"
            /\ attempts[1].url = QuiltPatchUrl(Str_a, task[r].quilt_patch_id)
            /\ attempts[2].ev = "failed"
            /\ attempts[3].url = QuiltPatchUrl(Str_b, task[r].quilt_patch_id)
            /\ attempts[4].ev = "failed"
            /\ attempts[5].url =
                  QuiltPatchUrl(DEFAULT_AGGREGATORS[1], task[r].quilt_patch_id)

(***************************************************************************)
(* load of the caching variant: handlers created without a cache and       *)
(* without custom aggregators, loads, handles and requests.                *)
(***************************************************************************)

InitMerge ==
    /\ InitCaching
    /\ cache_name = JsNull
    /\ final_aggregators = DEFAULT_AGGREGATORS

NextMerge ==
    \/ \E new_resources \in ResourceMaps : caching_load(new_resources)
    \/ \E url \in CachingUrls : caching_handles(url)
    \/ \E r \in Requests, url \in CachingUrls : AllSettled /\ caching_handle(r, url)
    \/ \E r \in Requests, status \in Statuses : caching_FetchResponds(r, status)
    \/ \E r \in Requests : caching_FetchThrows(r)

SpecMerge == InitMerge /\ [][NextMerge]_vars

\* the maps given so far (options.resources, then the arguments of load) that
\* have the key path
GivenWith(path) == {k \in 1..Len(given) : path \in DOMAIN given[k]}

\* the id the latest of them gives to path
LatestGiven(path) ==
    given[CHOOSE k \in GivenWith(path) : \A j \in GivenWith(path) : j <= k][path]

ResourcesAreMerged ==
    /\ DOMAIN resources = UNION {DOMAIN given[k] : k \in 1..Len(given)}
    /\ \A path \in DOMAIN resources : resources[path] = LatestGiven(path)

HandlesMerged ==
    (probe.op = "handles" /\ probe.at = nloads) =>
        probe.ret = (GivenWith(URL_pathname(probe.arg)) # {})

\* a handle call made now is declined exactly for the paths no map has, and
\* fetches the id of the latest map that has the path
HandleUsesLatest ==
    \A r \in Requests :
        (task[r].pc = "idle" /\ task'[r].pc # "idle") =>
            LET path == task'[r].path
            IN  IF GivenWith(path) = {}
                THEN task'[r].pc = "declined"
                ELSE /\ task'[r].pc = "fetching"
                     /\ task'[r].quilt_patch_id = LatestGiven(path)
                     /\ Fetches(r)' =
                           <<FetchEvent(QuiltPatchUrl(DEFAULT_AGGREGATORS[1],
                                                      LatestGiven(path)), 1)>>

\* C28: load merges.  After options.resources m0 and load(m1), ..., load(mk)
\* a path is handled iff some mi has it as a key, the id fetched for it is
\* the one of the latest mi that has it, and a path that a later load does
\* not mention keeps its id
C28_LoadMerges ==
    [](ResourcesAreMerged /\ HandlesMerged) /\ [][HandleUsesLatest]_vars

\* after {'/a.js': '0'}, load({'/': '1', '/a.js': '2'}) and
\* load({'/a.js': '3'}) a request for '/' fetches the id 1 of the first load,
\* and '/a.js' has the id 3 of the second
C28_Witness ==
    /\ Len(given) = 3
    /\ given[1] = (Str_js :> <<"0">>)
    /\ given[3] = (Str_js :> <<"3">>)
    /\ resources[Str_js] = <<"3">>
    /\ \E r \in Requests :
          /\ task[r].path = Str_root
          /\ task[r].pc = "fetching"
          /\ task[r].quilt_patch_id = <<"1">>

(***************************************************************************)
(* load of src/src/index.js replacing the registry: loads, then handles    *)
(* and direct fetches of paths that one load registers and another does    *)
(* not.                                                                    *)
(***************************************************************************)

\* request.url of the requests handles is asked about
ReplaceUrls == { Str_origin \o <<"/", "q", "/">>, Str_origin \o Str_p }

\* arguments of fetch_from_walrus
ReplacePaths == { Str_q, Str_p }

NextReplace ==
    \/ \E data \in LoadInputs : load(data)
    \/ \E url \in ReplaceUrls : handles(url)
    \/ \E r \in Requests, path \in ReplacePaths :
          AllSettled /\ fetch_from_walrus(r, path)
    \/ \E r \in Requests, status \in Statuses : FetchResponds(r, status)
    \/ \E r \in Requests : FetchThrows(r)
    \/ \E r \in Requests : TimeoutFires(r)

SpecReplace == Init /\ [][NextReplace]_vars

\* the latest load call returned
LastLoadReturned == nloads > 0 /\ ~load_result.threw

\* the keys of the mapping of the latest load call, normalized
LastLoadKeys ==
    LET entries == load_result.argument.resources.entries
    IN  {normalize_path(entries[k][1]) : k \in 1..Len(entries)}

\* the endpoint list of the latest load call, each entry without its trailing
\* '/'
LastLoadEndpoints ==
    LET items == load_result.argument.aggregators.items
    IN  [k \in 1..Len(items) |->
            IF items[k][Len(items[k])] = "/"
            THEN SubSeq(items[k], 1, Len(items[k]) - 1)
            ELSE items[k]]

RegistryIsLastLoad ==
    LastLoadReturned =>
        /\ DOMAIN resources = LastLoadKeys
        /\ aggregators = LastLoadEndpoints
        /\ (probe.op = "handles" /\ probe.at = nloads) =>
              probe.ret = (normalize_path(probe.arg) \in LastLoadKeys)

\* a direct fetch made after a load that returned is rejected with 'Resource
\* not found' exactly for the paths that load does not have
DirectFetchSeesLastLoad ==
    \A r \in Requests :
        (LastLoadReturned /\ task[r].pc = "idle" /\ task'[r].pc # "idle") =>
            LET path == normalize_path(task'[r].url)
            IN  IF path \in LastLoadKeys
                THEN task'[r].pc = "fetching"
                ELSE /\ task'[r].pc = "rejected"
                     /\ task'[r].result = ResourceNotFound(path)

\* C31: load replaces.  After a load(m) that returned the keys of the
\* registry are exactly the normalized keys of m and the endpoint list is
\* m's list, trimmed; a path an earlier load registered and m does not have
\* is not handled any more: handles is false for it and fetch_from_walrus
\* rejects with 'Resource not found'
C31_LoadReplaces ==
    [](RegistryIsLastLoad) /\ [][DirectFetchSeesLastLoad]_vars

\* after load({'/p.js': '1', 'q/': '2'}, ...) and load({'/p.js': '3'}, ...)
\* handles is false for /q/ and the direct fetch of 'q/' was rejected with
\* 'Resource not found: /q', while the first load had it fetched
C31_Witness ==
    /\ generation = 2
    /\ LastLoadReturned
    /\ DOMAIN resources = {Str_p}
    /\ aggregators = <<Str_b>>
    /\ probe = [op |-> "handles", arg |-> Str_origin \o <<"/", "q", "/">>,
                ret |-> FALSE, at |-> 2]
    /\ task[1].url = Str_q
    /\ task[1].quilt_patch_id = <<"2">>
    /\ task[1].pc = "resolved"
    /\ task[2].url = Str_q
    /\ task[2].pc = "rejected"
    /\ task[2].result = ResourceNotFound(<<"/", "q">>)

(***************************************************************************)
(* Termination of handle.  The timer of every attempt fires unless the     *)
(* attempt settles before (index.js:121), and self.clients.matchAll()      *)
(* resolves: these steps are not postponed for ever.                       *)
(***************************************************************************)

Fairness ==
    \A r \in Requests :
        /\ WF_vars(notify_clients(r))
        /\ WF_vars(TimeoutFires(r))

\* loads and handle calls at any time, for one request URL
NextFair ==
    \/ \E data \in LoadInputs : load(data)
    \/ \E r \in Requests, url \in EndpointUrls : handle(r, url)
    \/ \E r \in Requests : notify_clients(r)
    \/ \E r \in Requests, status \in Statuses : FetchResponds(r, status)
    \/ \E r \in Requests : FetchThrows(r)
    \/ \E r \in Requests : TimeoutFires(r)

SpecFair == Init /\ [][NextFair]_vars /\ Fairness

\* a handle call that passed the guard
HandleAccepted(r) == task[r].kind = "handle" /\ task[r].pc # "threw"

HandleAnswered(r) ==
    /\ task[r].kind = "handle"
    /\ task[r].pc = "resolved"
    /\ task[r].result.status \in {200, 502}

\* the attempts of a call are the entries of its list, each at most once, in
\* order
BoundedTraversal ==
    \A r \in Requests :
        /\ Len(Fetches(r)) <= Len(task[r].aggs)
        /\ \A j \in 1..Len(Fetches(r)) :
              /\ Fetches(r)[j].attempt = j
              /\ Fetches(r)[j].url = BlobUrl(task[r].aggs[j], task[r].quilt_patch_id)
        /\ \A j, k \in 1..Len(Fetches(r)) :
              j # k => Fetches(r)[j].url # Fetches(r)[k].url

\* C32: every handle call that passed the guard is answered in the end with
\* status 200 or 502, after at most as many attempts as its endpoint list has
\* entries, and no entry is attempted twice
C32_HandleTerminates ==
    /\ []BoundedTraversal
    /\ \A r \in Requests : HandleAccepted(r) ~> HandleAnswered(r)

\* one call was answered 502 after one attempt at each of the two endpoints,
\* the other 200 at its first attempt
C32_Witness ==
    \E r, q \in Requests :
        /\ HandleAnswered(r)
        /\ task[r].result.status = 502
        /\ Len(task[r].aggs) = 2
        /\ Len(Fetches(r)) = 2
        /\ HandleAnswered(q)
        /\ task[q].result.status = 200
        /\ Len(Fetches(q)) = 1

(***************************************************************************)
(* load and its errors                                                     *)
(***************************************************************************)

\* a step in which a load call throws
LoadThrows == nloads' = nloads + 1 /\ load_result'.threw

\* C33: load is all-or-nothing: a load call that throws, for any reason,
\* leaves the registry, the endpoint list and the success flag as they were
C33_Original ==
    [][LoadThrows => UNCHANGED <<resources, aggregators, success_notified>>]_vars

(***************************************************************************)
(* Requests in flight while load runs                                      *)
(***************************************************************************)

\* the content id and the endpoint list of call r are those of one load
\* argument
FromOneLoad(r) ==
    \E data \in LoadInputs :
        /\ LoadOutcome(data) = "ok"
        /\ task[r].aggs = [k \in 1..Len(data.aggregators.items) |->
                              trim_trailing_slash(data.aggregators.items[k])]
        /\ task[r].quilt_patch_id =
              MapGet(StoreEntries(data.resources.entries,
                                  Len(data.resources.entries)),
                     task[r].path)

\* C34: the content id a handle call fetches and the endpoint list it
\* traverses were installed by the same load call, also when a load runs
\* while the call is suspended (stated for the calls that found a content id)
C34_Original ==
    \A r \in Requests :
        ( /\ task[r].kind = "handle"
          /\ task[r].aggs # << >>
          /\ task[r].quilt_patch_id # Undefined ) => FromOneLoad(r)

(***************************************************************************)
(* The messages of one handle call                                         *)
(***************************************************************************)

\* position in log[r] of the first VERSUI_SUCCESS post (0: none)
FirstSuccessPost(r) ==
    IF \E k \in 1..Len(log[r]) :
          log[r][k].ev = "post" /\ log[r][k].msg.type = "VERSUI_SUCCESS"
    THEN CHOOSE k \in 1..Len(log[r]) :
            /\ log[r][k].ev = "post" /\ log[r][k].msg.type = "VERSUI_SUCCESS"
            /\ \A j \in 1..(k - 1) :
                  ~(log[r][j].ev = "post" /\ log[r][j].msg.type = "VERSUI_SUCCESS")
    ELSE 0

\* C35: a handle call never posts both VERSUI_SUCCESS and VERSUI_ERROR; it
\* posts VERSUI_SUCCESS only after one of its own attempts was answered ok;
\* and its response is 200 iff it posted no VERSUI_ERROR, 502 iff it posted
\* one (stated for the calls that found a content id)
C35_Original ==
    \A r \in Requests :
        (task[r].kind = "handle" /\ task[r].quilt_patch_id # Undefined) =>
            /\ ~(PostsOf(r, "VERSUI_SUCCESS") # << >>
                    /\ PostsOf(r, "VERSUI_ERROR") # << >>)
            /\ FirstSuccessPost(r) # 0 =>
                  \E k \in 1..(FirstSuccessPost(r) - 1) :
                      log[r][k].ev = "response" /\ ResponseOk(log[r][k].status)
            /\ task[r].pc = "resolved" =>
                  /\ task[r].result.status = 200 <=> PostsOf(r, "VERSUI_ERROR") = << >>
                  /\ task[r].result.status = 502 <=> PostsOf(r, "VERSUI_ERROR") # << >>

(***************************************************************************)
(* The cache of the caching variant and load                               *)
(***************************************************************************)

\* a handle call of the caching variant, not overlapped by a load or by
\* another call, is answered with an ok response in this step
AnsweredNow(r) ==
    /\ task[r].kind = "caching_handle"
    /\ task[r].pc # "resolved"
    /\ task'[r].pc = "resolved"
    /\ task'[r].result # JsNull
    /\ task'[r].result.status = 200
    /\ ~overlap'

\* response was fetched, from some aggregator of the list, for blob_id
FetchedFor(response, blob_id) ==
    \E k \in 1..Len(final_aggregators) :
        response = WalrusResponse(QuiltPatchUrl(final_aggregators[k], blob_id))

\* C36: with cache_name set, a request made after load has changed the
\* content id of its path is answered with content fetched for the id now
\* registered, never with a cached response fetched for the earlier id
C36_Original ==
    [][\A r \in Requests :
          (Truthy(cache_name) /\ AnsweredNow(r)) =>
              FetchedFor(task'[r].result, resources[task[r].path])]_vars
====
